---- MODULE Spec2Model ----
(***************************************************************************)
(* Collection engine of The Threshing Floor: the RateLimiter quota         *)
(* tracker, RedditClient.fetch (retry loop) and RedditClient.collect       *)
(* (targets, listings, comment phase), behind the Pages Function proxy.    *)
(*                                                                         *)
(* Time: `now` counts whole seconds; Date.now() is now * MS milliseconds.  *)
(* _blockUntil is kept in milliseconds and _resetAt in seconds, as in the  *)
(* source.  _lastUpdated is written and persisted but never read by any    *)
(* decision, and is left out.  Two history fields are added to the tracker: *)
(* throttleAt and throttleSec, the second and the argument of the last      *)
(* recordBlock call that no clearBlock has followed (throttleAt = 0: none), *)
(* and loads, the number of times the page has loaded (init has run).       *)
(***************************************************************************)
EXTENDS Integers, Sequences, FiniteSets, TLC

\* ------------------------------------------------------------------ bounds
MaxTime == 8             \* last second explored while a collection runs
FetchMaxTime == 16       \* last second explored while a single request retries
MaxTargets == 2          \* comma-separated tokens in config.subreddit
MaxLimit == 3            \* largest config.limit
PageSize == 2            \* items the upstream returns per listing request
Available == 3           \* posts each subreddit holds upstream
MaxComments == 1         \* comments in every post's tree upstream
MaxRuns == 2             \* doCollection runs started
MaxPosts == 2            \* posts Thresh.Reddit.getPosts returns
MaxLoads == 3            \* page loads
MaxNameLen == 7          \* longest username exported
MaxExportTime == 3       \* last second in which an export is made
MaxExportPosts == 3      \* posts in an exported collection
MaxArchivePosts == 2    \* posts of a collection exported as an archive
MaxExports == 2         \* exports of one collection
MaxFilePosts == 2       \* posts of a data file that is read back
MaxNesting == 4         \* levels of replies below a top-level comment
MaxOverlap == 2          \* fetchJSON calls of the scraper running at once
MaxSent == 12            \* network requests of the scraper in one run
MaxRefused == 1          \* fetchJSON calls the scraper's rateLimiter refuses
MaxScraperTime == 61     \* last second explored for the scraper
HalfMinute == 30
MaxAuthors == 3          \* records of an export whose authors are compared
MaxSegments == 3    \* segments of a path sent to the proxy
MaxSaves == 3           \* saveCollection calls on one store

\* ------------------------------------------------------- program constants
MAX_REQUESTS_PER_MINUTE == 100
MAX_RETRIES == 3
BASE_DELAY_MS == 600
SUBREDDIT_DELAY_MS == 1000
WARN_DELAY_MS == 1500
LOW_QUOTA == 20
DEFAULT_BLOCK_SEC == 60
MS == 1000
MAX_COMMENT_POSTS == 20
W16 == 65536
RADIX == 36
SLICE_END == 8
CLIENT_DEPTH == 2
SCRAPER_DEPTH == 3
NAVIGATE_DELAY_MS == 1500

Min(a, b) == IF a < b THEN a ELSE b
Max(a, b) == IF a > b THEN a ELSE b
\* Math.ceil(a / b) for b > 0 and any integer a
CeilDiv(a, b) == -((-a) \div b)
RECURSIVE Pow2(_)
Pow2(n) == IF n = 0 THEN 1 ELSE 2 * Pow2(n - 1)

VARIABLES
    now,      \* wall clock, seconds
    rl,       \* the RateLimiter singleton and its localStorage entry
    co,       \* the activation of RedditClient.collect (locals, position)
    co2,      \* a second activation of RedditClient.collect on the same page
    db,       \* Thresh.Storage: the collections store and the export counter
    dc,       \* the activation of Thresh.App.doCollection, with the button
    call      \* the last call of a function examined on its own: arguments, result

vars == <<now, rl, co, co2, db, dc, call>>

\* the state outside the first activation of the collection engine
others == <<co2, db, dc, call>>

\* the clock, the tracker and the activations of RedditClient.collect
engine == <<now, rl, co, co2, call>>

\* no function has been called on its own
NoCall == [fn |-> "none"]

nowMs == now * MS

\* ============================================================ RateLimiter

\* _persist: the localStorage entry written from the in-memory fields
persist(r) ==
    [r EXCEPT !.stored = [present |-> TRUE, remaining |-> r.remaining,
                          resetAt |-> r.resetAt, used |-> r.used,
                          blockUntil |-> r.blockUntil]]

\* first statement of getStatus: restore the quota once the reset window passed
restoreIfReset(r) ==
    IF now > r.resetAt /\ r.resetAt > 0
    THEN [r EXCEPT !.remaining = MAX_REQUESTS_PER_MINUTE, !.used = 0, !.blocked = FALSE]
    ELSE r

\* clearBlock: clears the fields, persists, notifies.  The notification runs
\* getStatus, whose isBlocked is a no-op because _blocked is now false.
clearBlock(r) ==
    restoreIfReset(persist([r EXCEPT !.blocked = FALSE, !.blockUntil = 0,
                                     !.throttleAt = 0, !.throttleSec = 0]))

\* isBlocked: the tracker after the call, and the value returned
isBlockedState(r) ==
    IF r.blocked /\ nowMs >= r.blockUntil THEN clearBlock(r) ELSE r

isBlocked(r) ==
    IF r.blocked /\ nowMs >= r.blockUntil THEN FALSE ELSE r.blocked

blockSecondsLeft(r) ==
    IF ~r.blocked THEN 0 ELSE Max(0, CeilDiv(r.blockUntil - nowMs, MS))

\* getStatus: the tracker after the call (it restores the quota and runs isBlocked)
getStatusState(r) == isBlockedState(restoreIfReset(r))

\* the status object getStatus returns
getStatus(r) ==
    LET r1 == restoreIfReset(r) IN
    [remaining |-> r1.remaining, used |-> r1.used,
     blocked |-> isBlocked(r1),
     blockSecondsLeft |-> blockSecondsLeft(isBlockedState(r1)),
     resetAt |-> r1.resetAt]

\* _notify: computes getStatus for the listeners.  The listener of the page,
\* _updateRateSentinel, starts its 1 s countdown interval when the status is
\* blocked and no interval runs; countdown is the time the interval fires
\* next, 0 without an interval.
notify(r) ==
    LET r1 == getStatusState(r)
    IN [r1 EXCEPT !.countdown = IF @ = 0 /\ r1.blocked THEN nowMs + MS ELSE @]

\* updateFromHeaders.  A header is <<>> when headers.get() gives null and <<v>>
\* when it carries the number v.
updateFromHeaders(r, h) ==
    LET r1 == IF h.remaining # <<>> THEN [r EXCEPT !.remaining = h.remaining[1]] ELSE r
        r2 == IF h.reset # <<>> THEN [r1 EXCEPT !.resetAt = now + h.reset[1]] ELSE r1
        r3 == IF h.used # <<>> THEN [r2 EXCEPT !.used = h.used[1]] ELSE r2
    IN notify(persist(r3))

\* (retryAfterSec || 60) * 1000
blockDuration(retryAfterSec) ==
    (IF retryAfterSec = 0 THEN DEFAULT_BLOCK_SEC ELSE retryAfterSec) * MS

recordBlock(r, retryAfterSec) ==
    notify(persist([r EXCEPT !.blocked = TRUE,
                             !.blockUntil = nowMs + blockDuration(retryAfterSec),
                             !.remaining = 0,
                             !.throttleAt = now, !.throttleSec = retryAfterSec]))

NothingStored ==
    [present |-> FALSE, remaining |-> 0, resetAt |-> 0, used |-> 0, blockUntil |-> 0]

\* RateLimiter.init(): the object literal's defaults, then what localStorage
\* holds; _initRateSentinel of the page then shows the status, and starts the
\* countdown for a block that is still running
init(saved) ==
    LET r0 == IF saved.present
              THEN [remaining |-> saved.remaining, resetAt |-> saved.resetAt,
                    used |-> saved.used, blocked |-> FALSE,
                    blockUntil |-> saved.blockUntil, stored |-> saved,
                    throttleAt |-> 0, throttleSec |-> 0, loads |-> 1,
                    countdown |-> 0]
              ELSE [remaining |-> 100, resetAt |-> 0, used |-> 0, blocked |-> FALSE,
                    blockUntil |-> 0, stored |-> saved,
                    throttleAt |-> 0, throttleSec |-> 0, loads |-> 1,
                    countdown |-> 0]
        r1 == IF now > r0.resetAt
              THEN [r0 EXCEPT !.remaining = MAX_REQUESTS_PER_MINUTE, !.used = 0,
                              !.blocked = FALSE, !.blockUntil = 0]
              ELSE r0
    IN [r1 EXCEPT !.blocked = nowMs < r1.blockUntil,
                  !.countdown = IF nowMs < r1.blockUntil THEN nowMs + MS ELSE 0]

\* ================================================== functions/api/reddit.js

NoHeaders == [remaining |-> <<>>, reset |-> <<>>, used |-> <<>>, retryAfter |-> <<>>]

\* what www.reddit.com answers the proxy: a status with its rate-limit headers,
\* or status 0 when the proxy's own fetch throws
UpstreamOutcomes ==
    {[status |-> 200, remaining |-> <<>>, reset |-> <<>>, used |-> <<>>,
      retryAfter |-> <<>>],
     [status |-> 200, remaining |-> <<5>>, reset |-> <<1>>, used |-> <<7>>,
      retryAfter |-> <<>>]}
    \cup [status : {429}, remaining : {<<>>}, reset : {<<>>, <<1>>},
          used : {<<>>}, retryAfter : {<<>>, <<0>>, <<1>>}]
    \cup [status : {0, 403, 404, 500}, remaining : {<<>>}, reset : {<<>>},
          used : {<<>>}, retryAfter : {<<>>}]

\* the message onRequestGet puts in the error body
proxyMessage(status) ==
    IF status = 404 THEN "NotFound"
    ELSE IF status = 403 THEN "AccessDenied"
    ELSE IF status = 429 THEN "RateLimitedProxy"
    ELSE IF status >= 500 THEN "RedditIssues"
    ELSE "RedditError"

\* onRequestGet from the upstream fetch on: the response the browser receives
onRequestGet(u) ==
    IF u.status = 0
    THEN [status |-> 502, headers |-> NoHeaders,
          body |-> [json |-> TRUE, error |-> "FailedToReach", shaped |-> FALSE]]
    ELSE IF u.status # 200
    THEN [status |-> u.status,
          headers |-> IF u.status = 429
                      THEN [remaining |-> <<0>>, reset |-> u.reset, used |-> <<>>,
                            retryAfter |-> u.retryAfter]
                      ELSE NoHeaders,
          body |-> [json |-> TRUE, error |-> proxyMessage(u.status), shaped |-> FALSE]]
    ELSE [status |-> 200,
          headers |-> [remaining |-> u.remaining, reset |-> u.reset, used |-> u.used,
                       retryAfter |-> <<>>],
          body |-> [json |-> TRUE, error |-> "", shaped |-> TRUE]]

\* answers that do not come from onRequestGet (the hosting edge in front of it):
\* a body that is not JSON, or JSON without an "error" member
EdgeResponses ==
    [status : {429, 503}, headers : {NoHeaders},
     body : {[json |-> FALSE, error |-> "", shaped |-> FALSE],
             [json |-> TRUE, error |-> "", shaped |-> FALSE]}]
    \cup {[status |-> 200, headers |-> NoHeaders,
           body |-> [json |-> TRUE, error |-> "", shaped |-> FALSE]]}

Responses == {onRequestGet(u) : u \in UpstreamOutcomes} \cup EdgeResponses

responseOk(resp) == resp.status >= 200 /\ resp.status <= 299

\* ============================================================ RedditClient

RawTokens == {"a", "b", " a", ""}
trim(t) == IF t = " a" THEN "a" ELSE t

\* subreddit.split(',').map(s => s.trim()).filter(Boolean)
RECURSIVE parseSubreddits(_)
parseSubreddits(raw) ==
    IF raw = <<>> THEN <<>>
    ELSE LET t == trim(Head(raw)) IN
         (IF t = "" THEN <<>> ELSE <<t>>) \o parseSubreddits(Tail(raw))

\* config.subreddit.split(',').filter(Boolean).length
RECURSIVE countTokens(_)
countTokens(raw) ==
    IF raw = <<>> THEN 0
    ELSE (IF Head(raw) = "" THEN 0 ELSE 1) + countTokens(Tail(raw))

estimateRequests(raw, limit, includeComments) ==
    countTokens(raw) + (IF includeComments THEN limit * countTokens(raw) ELSE 0)

Error(msg, secs, status) == [msg |-> msg, secs |-> secs, status |-> status]
NoError == Error("", 0, 0)

\* err.message.includes('Rate limited')
includesRateLimited(msg) ==
    msg \in {"RateLimitedWait", "RateLimitedCollect", "RateLimitedProxy",
             "RateLimitedRetrying"}

\* the t3 children the upstream returns for r/<sub> with ?limit=<limit> and no
\* cursor, as posts.  fcSet tells whether fetched_comments has been assigned.
upstreamListing(sub, limit) ==
    [k \in 1..Min(Min(limit, PageSize), Available) |->
        [id |-> <<sub, k>>, subreddit |-> sub, fcSet |-> FALSE,
         fetched_comments |-> <<>>]]

\* _parseListing: no children when the body lacks data.children
parseListing(resp, sub, limit) ==
    IF resp.body.shaped THEN upstreamListing(sub, limit) ELSE <<>>

\* getComments after the fetch: [] unless the body is [post_listing, comment_listing]
parseComments(resp, postId, n) ==
    IF resp.body.shaped THEN [j \in 1..n |-> [id |-> <<postId, j>>]] ELSE <<>>

NoResult == [posts |-> <<>>, comments |-> <<>>]

\* The locals of collect and of the fetch call it is in, with its position (pc).
\* History fields: err, the last exception that left RedditClient.fetch or
\* collect; lastStatus, how the request before this position ended (a status,
\* 0: it threw, -1: no request has ended since the last one was issued);
\* netCalls, the requests issued; pages, the listings received for the target;
\* inFlight, the requests issued whose promise has not settled yet;
\* cancel, whether the user has asked for this run to stop; progress, the
\* value of current in each onProgress call of the run, in order.

Idle ==
    [pc |-> "idle", subs |-> <<>>, limit |-> 0, includeComments |-> FALSE,
     subIdx |-> 0, base |-> 0, nPosts |-> 0, cIdx |-> 0, phase |-> "none",
     attempt |-> 0, wakeAt |-> 0, lastError |-> "",
     allPosts |-> <<>>, allComments |-> <<>>, result |-> NoResult,
     err |-> NoError, lastStatus |-> -1, netCalls |-> 0, pages |-> 0,
     inFlight |-> 0, cancel |-> FALSE, totalFetched |-> 0, progress |-> <<>>]

St(r, c) == [rl |-> r, co |-> c]

\* onProgress?.({message, current, total})
onProgress(c, current) == [c EXCEPT !.progress = Append(@, current)]

RECURSIVE fetchEnter(_, _), fetchThrows(_, _), afterTarget(_), nextTarget(_),
          commentLoop(_)

\* collect's return statement
collectReturns(S) ==
    St(S.rl, [Idle EXCEPT !.pc = "done",
                          !.subs = S.co.subs, !.limit = S.co.limit,
                          !.includeComments = S.co.includeComments,
                          !.netCalls = S.co.netCalls, !.pages = S.co.pages,
                          !.inFlight = S.co.inFlight,
                          !.progress = S.co.progress,
                          !.err = S.co.err, !.lastStatus = S.co.lastStatus,
                          !.result = [posts |-> S.co.allPosts,
                                      comments |-> S.co.allComments]])

\* an exception leaves collect: the promise rejects and the locals are dropped.
\* The locals are kept in the record as they were when the exception left.
collectThrows(S, e) ==
    St(S.rl, [S.co EXCEPT !.pc = "failed", !.err = e, !.attempt = 0, !.wakeAt = 0,
                          !.lastError = ""])

\* RedditClient.fetch up to its first await: the block check, then the request
fetchEnter(S, phase) ==
    LET r1 == isBlockedState(S.rl)
        c1 == [S.co EXCEPT !.phase = phase, !.attempt = 0, !.lastError = "",
                           !.wakeAt = 0, !.err = NoError, !.lastStatus = -1]
    IN IF isBlocked(S.rl)
       THEN fetchThrows(St(r1, c1), Error("RateLimitedWait", blockSecondsLeft(r1), 0))
       ELSE St(r1, [c1 EXCEPT !.pc = "awaitFetch", !.netCalls = @ + 1,
                               !.inFlight = @ + 1])

\* a loop that counts the posts of each target from zero
nextTargetCountsAfresh(S) ==
    IF S.co.subIdx > Len(S.co.subs)
    THEN collectReturns(S)
    ELSE fetchEnter(St(S.rl, onProgress([S.co EXCEPT !.pages = 0, !.cIdx = 0,
                                                     !.nPosts = 0,
                                                     !.totalFetched = 0,
                                                     !.base = Len(S.co.allPosts)],
                                        0)),
                    "listing")

\* the for-of head of collect with subIdx already advanced: the progress call,
\* then the next target's listing (getPosts or searchPosts, which differ only
\* in the query string)
nextTarget(S) ==
    IF S.co.subIdx > Len(S.co.subs)
    THEN collectReturns(S)
    ELSE fetchEnter(St(S.rl, onProgress([S.co EXCEPT !.pages = 0, !.cIdx = 0,
                                                     !.nPosts = 0,
                                                     !.base = Len(S.co.allPosts)],
                                        S.co.totalFetched)),
                    "listing")

\* end of one target's body: the delay between subreddits, or straight on
afterTarget(S) ==
    IF Len(S.co.subs) > 1
    THEN St(S.rl, [S.co EXCEPT !.pc = "subDelay", !.phase = "none",
                               !.wakeAt = nowMs + SUBREDDIT_DELAY_MS])
    ELSE nextTarget(St(S.rl, [S.co EXCEPT !.subIdx = @ + 1, !.phase = "none"]))

\* a comment loop that starts the getComments of all remaining posts at once
commentLoopParallel(S) ==
    IF S.co.cIdx > S.co.nPosts
    THEN afterTarget(S)
    ELSE St(S.rl, [S.co EXCEPT !.pc = "awaitFetch", !.phase = "comments",
                               !.attempt = 0, !.lastError = "", !.wakeAt = 0,
                               !.err = NoError, !.lastStatus = -1,
                               !.netCalls = @ + (S.co.nPosts - S.co.cIdx + 1),
                               !.inFlight = @ + (S.co.nPosts - S.co.cIdx + 1)])

\* head of the comment loop: i is cIdx - 1
commentLoop(S) ==
    IF S.co.cIdx > S.co.nPosts
    THEN afterTarget(S)
    ELSE fetchEnter(St(S.rl, onProgress(S.co, S.co.totalFetched)), "comments")

\* fetchThrows without the try/catch around getComments
fetchThrowsAborting(S, e) == collectThrows(S, e)

\* an exception leaves RedditClient.fetch: out of collect from a listing,
\* into the catch of the comment loop from getComments
fetchThrows(S, e) ==
    IF S.co.phase = "listing"
    THEN collectThrows(S, e)
    ELSE IF includesRateLimited(e.msg)
    THEN afterTarget(St(S.rl, onProgress([S.co EXCEPT !.err = e, !.attempt = 0,
                                                      !.lastError = ""],
                                         S.co.totalFetched)))
    ELSE St(S.rl, [S.co EXCEPT
            !.err = e,
            !.allPosts[S.co.base + S.co.cIdx].fcSet = TRUE,
            !.allPosts[S.co.base + S.co.cIdx].fetched_comments = <<>>,
            !.pc = "commentDelay", !.wakeAt = nowMs + BASE_DELAY_MS,
            !.attempt = 0, !.lastError = ""])

\* a listing arrived: lines 926-939
listingDone(S, posts) ==
    LET c0 == [S.co EXCEPT !.allPosts = @ \o posts, !.nPosts = Len(posts),
                           !.totalFetched = @ + Len(posts),
                           !.pages = @ + 1, !.cIdx = 1,
                           !.attempt = 0, !.lastError = ""]
        c1 == onProgress(c0, c0.totalFetched)
    IN IF S.co.includeComments
       THEN commentLoop(St(S.rl, c1))
       ELSE afterTarget(St(S.rl, c1))

\* a comment tree arrived: lines 948-950, then the pacing delay of line 966
commentsDone(S, comments) ==
    LET p == S.co.base + S.co.cIdx
        pid == S.co.allPosts[p].id
    IN St(S.rl, [S.co EXCEPT
            !.allPosts[p].fcSet = TRUE,
            !.allPosts[p].fetched_comments = comments,
            !.allComments = @ \o [j \in 1..Len(comments) |->
                                    [id |-> comments[j].id, post_id |-> pid]],
            !.pc = "commentDelay", !.wakeAt = nowMs + BASE_DELAY_MS,
            !.attempt = 0, !.lastError = ""])

\* a backoff that grows by a fixed step instead of doubling
backoffLinear(attempt) == 2 * attempt * MS

\* Math.pow(2, attempt) * 1000
backoffMs(attempt) == Pow2(attempt) * MS

\* an error that always carries the response status
errorOfWithStatus(resp) ==
    Error(IF resp.body.error # "" THEN resp.body.error ELSE "StatusN", 0, resp.status)

\* data.error || `Reddit returned status ${response.status}`
errorOf(resp) ==
    IF resp.body.error # "" THEN Error(resp.body.error, 0, 0)
    ELSE Error("StatusN", 0, resp.status)

\* lines 774-776 and the loop head: after a 429 the next attempt waits, or the
\* retries are exhausted and lastError is thrown
on429Body(S, resp) ==
    LET msg == IF resp.body.json /\ resp.body.error # ""
               THEN resp.body.error ELSE "RateLimitedRetrying"
        c1 == [S.co EXCEPT !.lastError = msg, !.attempt = @ + 1]
    IN IF c1.attempt > MAX_RETRIES
       THEN fetchThrows(St(S.rl, c1), Error(msg, 0, 0))
       ELSE St(S.rl, [c1 EXCEPT !.pc = "backoff",
                                !.wakeAt = nowMs + backoffMs(c1.attempt)])

\* lines 779-790 and the caller's use of the data
onBody(S, resp) ==
    LET c == S.co
    IN IF ~resp.body.json
       THEN fetchThrows(S, Error("SyntaxError", 0, 0))
       ELSE IF ~responseOk(resp)
       THEN fetchThrows(S, errorOf(resp))
       ELSE LET r1 == IF c.attempt > 0 THEN clearBlock(S.rl) ELSE S.rl
            IN IF c.phase = "listing"
               THEN listingDone(St(r1, c), parseListing(resp, c.subs[c.subIdx], c.limit))
               ELSE commentsDone(St(r1, c),
                                 parseComments(resp, c.allPosts[c.base + c.cIdx].id,
                                               MaxComments))

\* lines 764-791: the response arrived; headers, the block on a 429, the body.
\* response.json() settles in the same turn of the clock; only getStatus could
\* run in between, and the notification of updateFromHeaders has just run it.
onResponse(S, resp) ==
    LET r1 == updateFromHeaders(S.rl, resp.headers)
        resetSec == IF resp.headers.retryAfter # <<>>
                    THEN resp.headers.retryAfter[1] ELSE DEFAULT_BLOCK_SEC
        c1 == [S.co EXCEPT !.lastStatus = resp.status, !.inFlight = @ - 1]
    IN IF resp.status = 429
       THEN on429Body(St(recordBlock(r1, resetSec), c1), resp)
       ELSE onBody(St(r1, c1), resp)

\* a rejected request treated like a 429 without the block: wait and try again
onRejectRetried(S) ==
    LET c1 == [S.co EXCEPT !.lastStatus = 0, !.lastError = "TypeError",
                           !.attempt = @ + 1, !.inFlight = @ - 1]
    IN IF c1.attempt > MAX_RETRIES
       THEN fetchThrows(St(S.rl, c1), Error("TypeError", 0, 0))
       ELSE St(S.rl, [c1 EXCEPT !.pc = "backoff",
                                !.wakeAt = nowMs + Pow2(c1.attempt) * MS])

\* await fetch(url) rejects: nothing catches it inside RedditClient.fetch
onReject(S) ==
    fetchThrows(St(S.rl, [S.co EXCEPT !.lastStatus = 0, !.inFlight = @ - 1]),
                Error("TypeError", 0, 0))

\* lines 752-764: the backoff is over; the block is checked again before the request
afterBackoff(S) ==
    LET r1 == isBlockedState(S.rl)
        c1 == [S.co EXCEPT !.lastStatus = -1]
    IN IF isBlocked(S.rl)
       THEN fetchThrows(St(r1, c1), Error("RateLimitedWait", blockSecondsLeft(r1), 0))
       ELSE St(r1, [c1 EXCEPT !.pc = "awaitFetch", !.netCalls = @ + 1,
                               !.inFlight = @ + 1])

\* collect from its first line to its first await
collectStart(r, raw, limit, includeComments) ==
    LET r1 == isBlockedState(r)
        c0 == [Idle EXCEPT !.subs = parseSubreddits(raw), !.limit = limit,
                           !.includeComments = includeComments]
        status == getStatus(r1)
        r2 == getStatusState(r1)
    IN IF isBlocked(r)
       THEN St(r1, [c0 EXCEPT !.pc = "failed",
                              !.err = Error("RateLimitedCollect", blockSecondsLeft(r1), 0)])
       ELSE IF status.remaining < estimateRequests(raw, limit, includeComments)
               /\ status.remaining < LOW_QUOTA
       THEN St(r2, [onProgress(c0, 0) EXCEPT !.pc = "warnWait",
                                             !.wakeAt = nowMs + WARN_DELAY_MS])
       ELSE nextTarget(St(r2, [c0 EXCEPT !.subIdx = 1]))

\* ======================================== hashUsername and Exporter._anonymize

\* Strings are sequences of char codes.  A 32-bit integer is the pair of its
\* 16-bit halves [hi, lo] in two's complement.
Deleted == <<91, 100, 101, 108, 101, 116, 101, 100, 93>>
UserPrefix == <<117, 115, 101, 114, 95>>
Zero32 == [hi |-> 0, lo |-> 0]

\* h << 5
shl5(h) ==
    [hi |-> (h.hi * 32 + (h.lo * 32) \div W16) % W16, lo |-> (h.lo * 32) % W16]

\* a - b, wrapped to 32 bits
sub32(a, b) ==
    LET borrow == IF a.lo < b.lo THEN 1 ELSE 0
    IN [hi |-> (a.hi - b.hi - borrow + 2 * W16) % W16,
        lo |-> (a.lo - b.lo + W16) % W16]

\* a + charCode, wrapped to 32 bits
addChar(a, c) ==
    [hi |-> (a.hi + (a.lo + c) \div W16) % W16, lo |-> (a.lo + c) % W16]

\* the for loop: h = ((h << 5) - h + name.charCodeAt(i)) | 0
RECURSIVE hashLoop(_, _)
hashLoop(name, h) ==
    IF name = <<>> THEN h
    ELSE hashLoop(Tail(name), addChar(sub32(shl5(h), h), Head(name)))

\* Math.abs of a 32-bit integer: its magnitude, 2^31 for -2^31
abs32(h) == IF h.hi >= W16 \div 2 THEN sub32(Zero32, h) ELSE h

\* one digit of toString(36): 0-9, a-z
digitChar(d) == IF d < 10 THEN 48 + d ELSE 87 + d

\* Number.prototype.toString(36) of a magnitude below 2^32
RECURSIVE toString36(_)
toString36(m) ==
    LET low == (m.hi % RADIX) * W16 + m.lo
        q == [hi |-> m.hi \div RADIX, lo |-> low \div RADIX]
    IN IF m.hi = 0 /\ m.lo < RADIX
       THEN <<digitChar(m.lo)>>
       ELSE toString36(q) \o <<digitChar(low % RADIX)>>

\* a hash that mixes the time of the export into the name
hashUsernameSalted(name) ==
    IF name = <<>> \/ name = Deleted THEN Deleted
    ELSE UserPrefix \o toString36(abs32(hashLoop(name \o <<now>>, Zero32)))

\* Thresh.Export: hashUsername(name)
hashUsername(name) ==
    IF name = <<>> \/ name = Deleted THEN Deleted
    ELSE UserPrefix \o toString36(abs32(hashLoop(name, Zero32)))

\* String.prototype.slice(0, end)
slice0(str, end) == SubSeq(str, 1, Min(end, Len(str)))

\* Exporter._anonymize(username)
anonymize(username) ==
    IF username = <<>> \/ username = Deleted THEN Deleted
    ELSE UserPrefix \o slice0(toString36(abs32(hashLoop(username, Zero32))), SLICE_END)

\* the author of an exported record under the exporter impl
exportedAuthor(impl, author) ==
    IF impl = "Thresh.Export" THEN hashUsername(author) ELSE anonymize(author)

\* ========================================= Thresh.Export.exportCollection

\* String.prototype.toLowerCase on A-Z
lowerChar(c) == IF c >= 65 /\ c <= 90 THEN c + 32 ELSE c
toLowerCase(str) == [i \in 1..Len(str) |-> lowerChar(str[i])]

\* String.prototype.includes
includes(str, sub) ==
    \E i \in 0..Len(str) :
        i + Len(sub) <= Len(str) /\ SubSeq(str, i + 1, i + Len(sub)) = sub

\* a score filter that keeps only the posts above the minimum
scoreFilterStrict(posts, minScore) ==
    IF minScore # 0
    THEN LET above(p) == p.score > minScore IN SelectSeq(posts, above)
    ELSE posts

\* if (options.minScore) posts = posts.filter(p => p.score >= min), with
\* Array.prototype.filter as SelectSeq
scoreFilter(posts, minScore) ==
    IF minScore # 0
    THEN LET atLeast(p) == p.score >= minScore IN SelectSeq(posts, atLeast)
    ELSE posts

\* if (options.keyword) the posts whose title or selftext includes it.  An
\* empty title or selftext is falsy and is not searched.
keywordFilter(posts, keyword) ==
    IF keyword # <<>>
    THEN LET kw == toLowerCase(keyword)
             matches(p) ==
                \/ p.title # <<>> /\ includes(toLowerCase(p.title), kw)
                \/ p.selftext # <<>> /\ includes(toLowerCase(p.selftext), kw)
         IN SelectSeq(posts, matches)
    ELSE posts

\* processPost: a copy, with the author hashed under anonymize
processPost(post, options) ==
    IF options.anonymize THEN [post EXCEPT !.author = hashUsername(@)] ELSE post

\* toCSV, toJSONL, toJSON: the data file as its records, the CSV with its
\* header row
serialize(posts, format, options) ==
    [file |-> IF format = "csv" THEN "posts.csv"
              ELSE IF format = "jsonl" THEN "posts.jsonl" ELSE "posts.json",
     header |-> format = "csv",
     records |-> [i \in 1..Len(posts) |-> processPost(posts[i], options)]]

\* exportCollection up to the data file
exportCollection(collection, format, options) ==
    serialize(keywordFilter(scoreFilter(collection, options.minScore),
                            options.keyword),
              format, options)

\* ========================================================= export archives

\* JSZip folder.file(name, content): the folder as the list of its entries; a
\* file of the same name replaces the entry
zipFile(zip, name, content) ==
    IF \E i \in 1..Len(zip) : zip[i].name = name
    THEN [i \in 1..Len(zip) |->
            IF zip[i].name = name THEN [name |-> name, content |-> content]
            ELSE zip[i]]
    ELSE Append(zip, [name |-> name, content |-> content])

\* a line of a provenance document: the text written by the code and the
\* data taken from the inputs or from the clock
line(text, data) == [text |-> text, data |-> data]

\* String.prototype.toUpperCase of a format name
toUpperCase(format) ==
    CASE format = "csv" -> "CSV"
      [] format = "json" -> "JSON"
      [] format = "jsonl" -> "JSONL"
      [] OTHER -> format

\* a provenance document that dates a collection without createdAt by the
\* export
generateProvenanceDated(collection, format, options, t) ==
    <<line("Export date:", <<t>>),
      line("Subreddit: r/", collection.subreddit)>>
    \o (IF collection.query # <<>>
        THEN <<line("Search query:", collection.query)>> ELSE <<>>)
    \o <<IF collection.sort # <<>> THEN line("Sort:", collection.sort)
         ELSE line("Sort: hot", <<>>)>>
    \o (IF collection.timeFilter # <<>>
        THEN <<line("Time filter:", collection.timeFilter)>> ELSE <<>>)
    \o <<IF collection.limit # 0 THEN line("Requested limit:", <<collection.limit>>)
         ELSE line("Requested limit: -", <<>>),
         line("Posts collected:", <<collection.postCount>>),
         line("Comments collected:", <<collection.commentCount>>),
         IF collection.createdAt # 0
         THEN line("Collection date:", <<collection.createdAt>>)
         ELSE line("Collection date:", <<t>>),
         IF collection.status # "" THEN line("Status: " \o collection.status, <<>>)
         ELSE line("Status: completed", <<>>),
         line("Format: " \o toUpperCase(format), <<>>),
         IF options.anonymize THEN line("Usernames: Anonymized (hashed)", <<>>)
         ELSE line("Usernames: Included as-is", <<>>),
         IF options.includeComments THEN line("Comments included: Yes", <<>>)
         ELSE line("Comments included: No", <<>>)>>
    \o (IF options.minScore # 0
        THEN <<line("Min score filter:", <<options.minScore>>)>> ELSE <<>>)
    \o (IF options.keyword # <<>>
        THEN <<line("Keyword filter:", options.keyword)>> ELSE <<>>)

\* generateProvenance(collection, format, options) called at time t: the lines
\* that carry data, in order (title, rules and the fixed notes left out).
\* now.toISOString() is the time itself; an absent or empty field is falsy.
generateProvenance(collection, format, options, t) ==
    <<line("Export date:", <<t>>),
      line("Subreddit: r/", collection.subreddit)>>
    \o (IF collection.query # <<>>
        THEN <<line("Search query:", collection.query)>> ELSE <<>>)
    \o <<IF collection.sort # <<>> THEN line("Sort:", collection.sort)
         ELSE line("Sort: hot", <<>>)>>
    \o (IF collection.timeFilter # <<>>
        THEN <<line("Time filter:", collection.timeFilter)>> ELSE <<>>)
    \o <<IF collection.limit # 0 THEN line("Requested limit:", <<collection.limit>>)
         ELSE line("Requested limit: -", <<>>),
         line("Posts collected:", <<collection.postCount>>),
         line("Comments collected:", <<collection.commentCount>>),
         IF collection.createdAt # 0
         THEN line("Collection date:", <<collection.createdAt>>)
         ELSE line("Collection date: -", <<>>),
         IF collection.status # "" THEN line("Status: " \o collection.status, <<>>)
         ELSE line("Status: completed", <<>>),
         line("Format: " \o toUpperCase(format), <<>>),
         IF options.anonymize THEN line("Usernames: Anonymized (hashed)", <<>>)
         ELSE line("Usernames: Included as-is", <<>>),
         IF options.includeComments THEN line("Comments included: Yes", <<>>)
         ELSE line("Comments included: No", <<>>)>>
    \o (IF options.minScore # 0
        THEN <<line("Min score filter:", <<options.minScore>>)>> ELSE <<>>)
    \o (IF options.keyword # <<>>
        THEN <<line("Keyword filter:", options.keyword)>> ELSE <<>>)

\* Exporter._generateProvenance(collection, options) called at time t: the
\* lines that carry data, in order
Exporter_generateProvenance(collection, options, t) ==
    <<line("Subreddit(s):", collection.config.subreddit),
      line("Sort:", collection.config.sort),
      line("Time filter:", collection.config.timeFilter),
      line("Max posts requested:", <<collection.config.limit>>),
      IF collection.config.keyword # <<>>
      THEN line("Keyword filter:", collection.config.keyword)
      ELSE line("Keyword filter: (none)", <<>>),
      IF collection.config.includeComments THEN line("Include comments: yes", <<>>)
      ELSE line("Include comments: no", <<>>),
      line("Posts collected:", <<Len(collection.posts)>>),
      line("Comments collected:",
           <<IF collection.comments.defined THEN Len(collection.comments.list)
             ELSE 0>>),
      line("Collection timestamp (UTC):", <<collection.timestamp>>),
      line("Format: " \o toUpperCase(options.format), <<>>),
      IF options.anonymize THEN line("Authors anonymized: yes", <<>>)
      ELSE line("Authors anonymized: no", <<>>),
      line("Export timestamp (UTC):", <<t>>)>>

\* the comments of all posts, in the order of Object.keys(collection.comments)
RECURSIVE allComments(_)
allComments(byPost) ==
    IF byPost = <<>> THEN <<>> ELSE Head(byPost) \o allComments(Tail(byPost))

\* the comments file of exportCollection: commentsToCSV or the JSON records
commentsFile(comments, format, options) ==
    [file |-> IF format = "csv" THEN "comments.csv"
              ELSE IF format = "jsonl" THEN "comments.jsonl" ELSE "comments.json",
     header |-> format = "csv",
     records |-> [i \in 1..Len(comments) |->
                    IF options.anonymize
                    THEN [comments[i] EXCEPT !.author = hashUsername(@)]
                    ELSE comments[i]]]

\* an exportCollection that writes the data in every format
exportCollectionEveryFormat(collection, format, options, t) ==
    LET data == exportCollection(collection.posts, format, options)
        csv == zipFile(<<>>, "posts.csv", data)
        json == zipFile(csv, "posts.json", data)
    IN zipFile(json, "provenance.txt",
               generateProvenance(collection, format, options, t))

\* Thresh.Export.exportCollection(collection, format, options) at time t: the
\* folder of the archive that is downloaded
exportCollectionZip(collection, format, options, t) ==
    LET data == exportCollection(collection.posts, format, options)
        withData == zipFile(<<>>, data.file, data)
        folder == zipFile(withData, "provenance.txt",
                          generateProvenance(collection, format, options, t))
        all == allComments(collection.comments.byPost)
    IN IF options.includeComments /\ collection.comments.defined /\ Len(all) > 0
       THEN LET cf == commentsFile(all, format, options)
            IN zipFile(folder, cf.file, cf)
       ELSE folder

\* Exporter._flattenPost and _flattenComment: a copy with the author
\* anonymized on request
flattenRecord(record, anonymize_) ==
    IF anonymize_ THEN [record EXCEPT !.author = anonymize(@)] ELSE record

\* Exporter.exportZip(collection, options) at time t: the folder of the
\* archive that is downloaded
exportZip(collection, options, t) ==
    LET csv == options.format = "csv"
        exportPosts == [i \in 1..Len(collection.posts) |->
                          flattenRecord(collection.posts[i], options.anonymize)]
        withData == zipFile(<<>>, IF csv THEN "posts.csv" ELSE "posts.json",
                            [file |-> IF csv THEN "posts.csv" ELSE "posts.json",
                             header |-> csv, records |-> exportPosts])
        comments == collection.comments
        withComments ==
            IF comments.defined /\ Len(comments.list) > 0
            THEN zipFile(withData,
                         IF csv THEN "comments.csv" ELSE "comments.json",
                         [file |-> IF csv THEN "comments.csv" ELSE "comments.json",
                          header |-> csv,
                          records |-> [i \in 1..Len(comments.list) |->
                                         flattenRecord(comments.list[i],
                                                 options.anonymize)]])
            ELSE withData
    IN zipFile(withComments, "provenance.txt",
               Exporter_generateProvenance(collection, options, t))

\* ======================================================== data file formats

\* The text of a data file is a sequence of symbols: the characters that a
\* format gives a meaning to, each as a one-character string, and runs of
\* other characters ("id", "10", "a") as one symbol each.
BOM == "BOM"
COMMA == ","
QUOTE == "\""
LF == "\n"
CR == "\r"
BACKSLASH == "\\"
SPACE == " "

\* String(p[c]): the decimal digits of a number, the string itself
numeric == {"score", "numComments"}
StringOf(p, c) == IF c \in numeric THEN <<ToString(p[c])>> ELSE p[c]

\* Array.prototype.join
RECURSIVE join(_, _)
join(parts, sep) ==
    IF parts = <<>> THEN <<>>
    ELSE IF Len(parts) = 1 THEN parts[1]
    ELSE parts[1] \o sep \o join(Tail(parts), sep)

\* String.prototype.includes for one character
has(str, ch) == \E i \in 1..Len(str) : str[i] = ch

\* s.replace(/"/g, '""')
RECURSIVE doubleQuotes(_)
doubleQuotes(str) ==
    IF str = <<>> THEN <<>>
    ELSE (IF Head(str) = QUOTE THEN <<QUOTE, QUOTE>> ELSE <<Head(str)>>)
         \o doubleQuotes(Tail(str))

\* an escapeCSV that quotes a field with a carriage return as well
escapeCSVWithCR(s) ==
    LET quoted == <<QUOTE>> \o doubleQuotes(s) \o <<QUOTE>>
    IN IF has(s, COMMA) \/ has(s, QUOTE) \/ has(s, LF) \/ has(s, CR)
       THEN quoted
       ELSE s

\* escapeCSV of Thresh.Export.toCSV: quotes a field that includes a comma, a
\* double quote or \n
escapeCSV(s) ==
    LET quoted == <<QUOTE>> \o doubleQuotes(s) \o <<QUOTE>>
    IN IF has(s, COMMA) \/ has(s, QUOTE) \/ has(s, LF)
       THEN quoted
       ELSE s

\* the columns of the model, in the order of cols (author, upvoteRatio,
\* created, url, permalink, flair and subreddit left out)
cols == <<"id", "title", "score", "numComments", "selftext">>

\* Thresh.Export.toCSV(posts): BOM, header row and one row per post, joined
\* by \n
toCSV(posts) ==
    LET row(p) == join([c \in 1..Len(cols) |-> escapeCSV(StringOf(p, cols[c]))], <<COMMA>>)
        rows == <<join([c \in 1..Len(cols) |-> <<cols[c]>>], <<COMMA>>)>>
                \o [i \in 1..Len(posts) |-> row(posts[i])]
    IN <<BOM>> \o join(rows, <<LF>>)

\* escape of Exporter._toCSV: quotes on a double quote, a comma, \n or \r
escape(s) ==
    LET quoted == <<QUOTE>> \o doubleQuotes(s) \o <<QUOTE>>
    IN IF has(s, QUOTE) \/ has(s, COMMA) \/ has(s, LF) \/ has(s, CR)
       THEN quoted
       ELSE s

\* Object.keys of a flattened post, in the order of _flattenPost (subreddit,
\* author, upvote_ratio and the fields after num_comments left out), with the
\* member of the stored post each is taken from
headers == <<"id", "title", "selftext", "score", "num_comments">>
flatMember(h) == IF h = "num_comments" THEN "numComments" ELSE h

\* Exporter._toCSV(rows): nothing for no rows, else BOM, header and rows
\* joined by \r\n
Exporter_toCSV(posts) ==
    IF Len(posts) = 0 THEN <<>>
    ELSE LET row(p) == join([c \in 1..Len(headers) |->
                                escape(StringOf(p, flatMember(headers[c])))], <<COMMA>>)
             csvRows == <<join([c \in 1..Len(headers) |-> escape(<<headers[c]>>)],
                               <<COMMA>>)>>
                        \o [i \in 1..Len(posts) |-> row(posts[i])]
         IN <<BOM>> \o join(csvRows, <<CR, LF>>)

\* the k-th smallest of a set of positions, and the symbols of a text at a
\* set of positions, in order
kth(S, k) == CHOOSE p \in S : Cardinality({q \in S : q <= p}) = k
pick(text, S) == [k \in 1..Cardinality(S) |-> text[kth(S, k)]]

\* the pieces of text[lo..hi] between the separators at the positions seps,
\* each as <<first, last>>
pieces(lo, hi, seps) ==
    [k \in 1..(Cardinality(seps) + 1) |->
        <<IF k = 1 THEN lo ELSE kth(seps, k - 1) + 1,
          IF k = Cardinality(seps) + 1 THEN hi ELSE kth(seps, k) - 1>>]

\* Reading a CSV file by RFC 4180: a position is inside a quoted field when an
\* odd number of double quotes precedes it (a doubled quote counts twice);
\* outside, a comma ends a field and a line break (CRLF, a lone LF or CR) ends
\* a record
quotesBefore(text, i) == Cardinality({j \in 1..(i - 1) : text[j] = QUOTE})
outside(text, i) == quotesBefore(text, i) % 2 = 0

lineBreaks(text) ==
    {i \in 1..Len(text) : outside(text, i) /\ text[i] \in {CR, LF}}

\* the LF of a CRLF belongs to the break of its CR
afterCR(text, i) == i > 1 /\ text[i] = LF /\ text[i - 1] = CR /\ outside(text, i)

\* "" inside a quoted field is one double quote
undouble(inner) ==
    pick(inner, {j \in 1..Len(inner) :
                    inner[j] # QUOTE \/ quotesBefore(inner, j + 1) % 2 = 1})

csvField(raw) ==
    IF raw # <<>> /\ Head(raw) = QUOTE
    THEN undouble(SubSeq(raw, 2, Len(raw) - 1))
    ELSE raw

csvRecord(text, lo, hi) ==
    LET from == IF lo <= hi /\ afterCR(text, lo) THEN lo + 1 ELSE lo
        commas == {i \in from..hi : outside(text, i) /\ text[i] = COMMA}
        fields == pieces(from, hi, commas)
    IN [f \in 1..Len(fields) |-> csvField(SubSeq(text, fields[f][1], fields[f][2]))]

parseCSV(file) ==
    LET text == IF file # <<>> /\ Head(file) = BOM THEN Tail(file) ELSE file
        ends == {i \in lineBreaks(text) : ~afterCR(text, i)}
        records == pieces(1, Len(text), ends)
    IN [r \in 1..Len(records) |-> csvRecord(text, records[r][1], records[r][2])]

\* the (id, score, numComments) of the records of a CSV file, the columns
\* found by the names in the header row; a record too short lacks its values
column(header, names) ==
    IF \E c \in 1..Len(header) : header[c] \in names
    THEN CHOOSE c \in 1..Len(header) : header[c] \in names
    ELSE 0

cell(rec, c) == IF c >= 1 /\ c <= Len(rec) THEN rec[c] ELSE <<"missing">>

tuplesOfCSV(recs) ==
    IF recs = <<>> THEN {}
    ELSE LET idCol == column(recs[1], {<<"id">>})
             scoreCol == column(recs[1], {<<"score">>})
             ncCol == column(recs[1], {<<"numComments">>, <<"num_comments">>})
         IN {<<cell(recs[r], idCol), cell(recs[r], scoreCol), cell(recs[r], ncCol)>> :
                r \in 2..Len(recs)}

\* JSON.stringify of a string: in double quotes, with \", \\, \n and \r for
\* the double quote, the backslash, the line feed and the carriage return
RECURSIVE jsonEscape(_)
jsonEscape(str) ==
    IF str = <<>> THEN <<>>
    ELSE (CASE Head(str) = QUOTE -> <<BACKSLASH, QUOTE>>
            [] Head(str) = BACKSLASH -> <<BACKSLASH, BACKSLASH>>
            [] Head(str) = LF -> <<BACKSLASH, "n">>
            [] Head(str) = CR -> <<BACKSLASH, "r">>
            [] OTHER -> <<Head(str)>>)
         \o jsonEscape(Tail(str))

jsonString(str) == <<QUOTE>> \o jsonEscape(str) \o <<QUOTE>>

\* the members of the object written for a post: the members of the stored
\* post by Thresh.Export, those of _flattenPost by the Exporter
members(impl) == IF impl = "Exporter" THEN headers ELSE cols

jsonMember(p, key, sep) ==
    jsonString(<<key>>) \o sep
    \o (IF flatMember(key) \in numeric THEN StringOf(p, flatMember(key))
        ELSE jsonString(p[flatMember(key)]))

\* JSON.stringify(object)
stringify(p, keys) ==
    <<"{">> \o join([k \in 1..Len(keys) |-> jsonMember(p, keys[k], <<":">>)],
                    <<COMMA>>) \o <<"}">>

\* JSON.stringify(array, null, 2): one member on a line, a run of blanks
\* before it
stringifyPretty(posts, keys) ==
    IF posts = <<>> THEN <<"[", "]">>
    ELSE LET object(p) ==
                <<SPACE, "{", LF>>
                \o join([k \in 1..Len(keys) |->
                           <<SPACE>> \o jsonMember(p, keys[k], <<":", SPACE>>)],
                        <<COMMA, LF>>)
                \o <<LF, SPACE, "}">>
         IN <<"[", LF>>
            \o join([i \in 1..Len(posts) |-> object(posts[i])], <<COMMA, LF>>)
            \o <<LF, "]">>

\* toJSON(posts) and the Exporter's JSON.stringify(exportPosts, null, 2)
toJSON(posts, impl) == stringifyPretty(posts, members(impl))

\* toJSONL(posts): one object per line
toJSONL(posts) ==
    join([i \in 1..Len(posts) |-> stringify(posts[i], cols)], <<LF>>)

\* Reading JSON text.  A double quote delimits a string unless an odd number
\* of backslashes stands right before it; a position is in a string when an
\* odd number of delimiters precedes it.
last(S) == CHOOSE m \in S : \A q \in S : q <= m
first(S) == CHOOSE m \in S : \A q \in S : m <= q

backslashesBefore(text, i) ==
    LET before == {j \in 1..(i - 1) : text[j] # BACKSLASH}
    IN i - 1 - (IF before = {} THEN 0 ELSE last(before))

escaped(text, i) == backslashesBefore(text, i) % 2 = 1

delimiters(text) ==
    {i \in 1..Len(text) : text[i] = QUOTE /\ ~escaped(text, i)}

\* the positions outside the strings, given the delimiters
outsideStrings(text, ds) ==
    {i \in 1..Len(text) : Cardinality({d \in ds : d < i}) % 2 = 0}

\* the string between two delimiters, the escapes undone
unescape(text, lo, hi) ==
    LET kept == {i \in lo..hi : ~(text[i] = BACKSLASH /\ ~escaped(text, i))}
        char(i) == IF ~escaped(text, i) THEN text[i]
                   ELSE CASE text[i] = "n" -> LF
                          [] text[i] = "r" -> CR
                          [] OTHER -> text[i]
    IN [k \in 1..Cardinality(kept) |-> char(kth(kept, k))]

\* the member whose colon stands at c: its key, the string that ends before
\* the colon, and its value, a string or a number
jsonPair(text, ds, c) ==
    LET keyOpen == last({d \in ds : d < c - 1})
        v == first({i \in (c + 1)..Len(text) : text[i] \notin {SPACE, LF, CR}})
    IN <<unescape(text, keyOpen + 1, c - 2),
         IF text[v] = QUOTE
         THEN unescape(text, v + 1, first({d \in ds : d > v}) - 1)
         ELSE <<text[v]>>>>

\* JSON.parse, for an object or an array of objects whose members are
\* strings and numbers: the objects, each as the list of its <<key, value>>
\* pairs; text with a string that does not end or a brace that does not
\* close has no objects
parseJSON(text) ==
    LET ds == delimiters(text)
        free == outsideStrings(text, ds)
        opens == {i \in free : text[i] = "{"}
        closes == {i \in free : text[i] = "}"}
        colons == {i \in free : text[i] = ":"}
        object(lo, hi) ==
            LET cs == {c \in colons : lo < c /\ c < hi}
            IN [m \in 1..Cardinality(cs) |-> jsonPair(text, ds, kth(cs, m))]
    IN IF Cardinality(ds) % 2 = 1 \/ Cardinality(opens) # Cardinality(closes)
       THEN <<>>
       ELSE [k \in 1..Cardinality(opens) |->
               object(kth(opens, k), kth(closes, k))]

\* text.split('\n') of the lines of a JSONL file
splitLines(text) ==
    LET lines == pieces(1, Len(text), {i \in 1..Len(text) : text[i] = LF})
    IN [l \in 1..Len(lines) |-> SubSeq(text, lines[l][1], lines[l][2])]

\* the value of a member of a parsed object
member(obj, names) ==
    IF \E k \in 1..Len(obj) : obj[k][1] \in names
    THEN obj[CHOOSE k \in 1..Len(obj) : obj[k][1] \in names][2]
    ELSE <<"missing">>

tupleOfObject(obj) ==
    <<member(obj, {<<"id">>}), member(obj, {<<"score">>}),
      member(obj, {<<"numComments">>, <<"num_comments">>})>>

tuplesOfJSON(text) ==
    LET objs == parseJSON(text) IN {tupleOfObject(objs[k]) : k \in 1..Len(objs)}

\* JSONL: every line that is not empty is parsed on its own and is one object
tuplesOfJSONL(text) ==
    LET lines == splitLines(text)
        objectOf(l) == LET objs == parseJSON(l)
                       IN IF Len(objs) = 1 THEN objs[1] ELSE <<>>
    IN {tupleOfObject(objectOf(lines[k])) : k \in {j \in 1..Len(lines) : lines[j] # <<>>}}

\* the data file of an export, per exporter and format
dataFile(impl, format, posts) ==
    IF impl = "Exporter"
    THEN IF format = "csv" THEN Exporter_toCSV(posts) ELSE toJSON(posts, impl)
    ELSE IF format = "csv" THEN toCSV(posts)
         ELSE IF format = "jsonl" THEN toJSONL(posts) ELSE toJSON(posts, impl)

\* the data file read back
tuplesOfFile(format, text) ==
    IF format = "csv" THEN tuplesOfCSV(parseCSV(text))
    ELSE IF format = "jsonl" THEN tuplesOfJSONL(text) ELSE tuplesOfJSON(text)

\* ============================================================ comment trees

\* A raw comment of a Reddit listing: kind t1 (a comment) or more (a stub),
\* data.id, data.parent_id, data.depth (-1 when the listing leaves it out) and
\* data.replies.data.children.

\* RedditClient._parseComments: processComment(child, depth) for each child
\* of the listing, a reply processed with depth + 1
RECURSIVE processComment(_, _)
RECURSIVE processChildren(_, _)
processChildren(children, depth) ==
    IF children = <<>> THEN <<>>
    ELSE processComment(Head(children), depth)
         \o processChildren(Tail(children), depth)

processComment(child, depth) ==
    IF child.kind # "t1" THEN <<>>
    ELSE <<[id |-> child.id, depth |-> depth, parentId |-> child.parent_id]>>
         \o processChildren(child.replies, depth + 1)

parseCommentListing(listing) == processChildren(listing, 0)

\* flatten(children) of Thresh.Reddit.getComments: depth is d.depth || 0
RECURSIVE flatten(_)
flatten(children) ==
    IF children = <<>> THEN <<>>
    ELSE LET c == Head(children)
         IN (IF c.kind # "t1" THEN <<>>
             ELSE <<[id |-> c.id, depth |-> IF c.depth > 0 THEN c.depth ELSE 0,
                     parentId |-> c.parent_id]>>
                  \o flatten(c.replies))
            \o flatten(Tail(children))

\* the depth a client asks the listing for
maxDepth(impl) == IF impl = "RedditClient" THEN CLIENT_DEPTH ELSE SCRAPER_DEPTH


\* ================================== functions/api/reddit.js: the request path

\* A URL or a path is a sequence of symbols: the characters with a meaning in a
\* URL ("/", ".", "?", "#", ":") and chunks of other characters, none of which
\* begins another.
SLASH == "/"
DOT == "."
QMARK == "?"
HASHMARK == "#"
JSON_SUFFIX == <<DOT, "json">>

REDDIT_BASE == <<"https", ":", SLASH, SLASH, "www.reddit.com">>

ALLOWED_PREFIXES ==
    {<<"r", SLASH>>,
     <<"search", DOT, "json">>,
     <<"subreddits", SLASH, "search", DOT, "json">>,
     <<"subreddits", DOT, "json">>}

\* String.prototype.startsWith
startsWith(str, prefix) ==
    Len(prefix) <= Len(str) /\ SubSeq(str, 1, Len(prefix)) = prefix

\* isAllowedPath(path)
isAllowedPath(path) == \E prefix \in ALLOWED_PREFIXES : startsWith(path, prefix)

\* path.replace(/^\//, '')
stripLeadingSlash(path) ==
    IF path # <<>> /\ Head(path) = SLASH THEN Tail(path) ELSE path

\* String.prototype.indexOf of one symbol, counted from 1; 0 when absent
indexOf(str, c) ==
    IF \E i \in 1..Len(str) : str[i] = c
    THEN CHOOSE i \in 1..Len(str) : str[i] = c /\ \A j \in 1..(i - 1) : str[j] # c
    ELSE 0

\* if (!path.includes('.json')) add .json before the query
ensureJson(path) ==
    IF includes(path, JSON_SUFFIX) THEN path
    ELSE LET qIdx == indexOf(path, QMARK)
         IN IF qIdx > 0
            THEN SubSeq(path, 1, qIdx - 1) \o JSON_SUFFIX
                 \o SubSeq(path, qIdx, Len(path))
            ELSE path \o JSON_SUFFIX

\* the Reddit URL built from the validated path and the forwarded parameters
redditUrl(path, forwardStr) ==
    LET u0 == REDDIT_BASE \o <<SLASH>> \o path
        u1 == IF forwardStr # <<>>
              THEN u0 \o <<IF indexOf(u0, QMARK) > 0 THEN "&" ELSE QMARK>>
                   \o forwardStr
              ELSE u0
    IN u1 \o <<IF indexOf(u1, QMARK) > 0 THEN "&" ELSE QMARK>> \o <<"raw_json=1">>

\* fetch(url) parses the URL string before it sends the request: the host ends
\* at the first "/", the path at the first "?" or "#", and the path's segments
\* "." and ".." are resolved.
RECURSIVE splitSegments(_, _)
splitSegments(str, cur) ==
    IF str = <<>> THEN <<cur>>
    ELSE IF Head(str) = SLASH THEN <<cur>> \o splitSegments(Tail(str), <<>>)
    ELSE splitSegments(Tail(str), Append(cur, Head(str)))

SINGLE_DOT == <<DOT>>
DOUBLE_DOT == <<DOT, DOT>>

RECURSIVE resolveDots(_, _)
resolveDots(segs, out) ==
    IF segs = <<>> THEN out
    ELSE LET s == Head(segs)
             lastOne == Len(segs) = 1
         IN IF s = DOUBLE_DOT
            THEN LET popped == IF out = <<>> THEN out
                               ELSE SubSeq(out, 1, Len(out) - 1)
                 IN resolveDots(Tail(segs),
                                IF lastOne THEN Append(popped, <<>>) ELSE popped)
            ELSE IF s = SINGLE_DOT
            THEN resolveDots(Tail(segs), IF lastOne THEN Append(out, <<>>) ELSE out)
            ELSE resolveDots(Tail(segs), Append(out, s))

RECURSIVE joinSegments(_)
joinSegments(segs) ==
    IF segs = <<>> THEN <<>>
    ELSE IF Len(segs) = 1 THEN Head(segs)
    ELSE Head(segs) \o <<SLASH>> \o joinSegments(Tail(segs))

\* the request fetch sends for a URL string of the form scheme://host/rest:
\* its host and its path without the leading "/"
requestOf(url) ==
    LET afterScheme == SubSeq(url, 5, Len(url))
        hostEnd == CHOOSE i \in 1..(Len(afterScheme) + 1) :
                       /\ i = Len(afterScheme) + 1
                          \/ afterScheme[i] \in {SLASH, QMARK, HASHMARK}
                       /\ \A j \in 1..(i - 1) :
                              afterScheme[j] \notin {SLASH, QMARK, HASHMARK}
        rest == SubSeq(afterScheme, hostEnd + 1, Len(afterScheme))
        pathEnd == CHOOSE i \in 1..(Len(rest) + 1) :
                       /\ i = Len(rest) + 1 \/ rest[i] \in {QMARK, HASHMARK}
                       /\ \A j \in 1..(i - 1) : rest[j] \notin {QMARK, HASHMARK}
    IN [host |-> SubSeq(afterScheme, 1, hostEnd - 1),
        path |-> joinSegments(resolveDots(
                     splitSegments(SubSeq(rest, 1, pathEnd - 1), <<>>), <<>>))]

NoRequest == [host |-> <<>>, path |-> <<>>]

\* onRequestGet up to the upstream fetch.  req.path is <<>> for a request with
\* no path parameter or an empty one, which !path treats alike.
\* status 0: the handler is waiting for Reddit's answer.
onRequestGetPath(req) ==
    IF req.path = <<>>
    THEN [status |-> 400, fetched |-> FALSE, url |-> <<>>, upstream |-> NoRequest]
    ELSE LET path == stripLeadingSlash(req.path)
         IN IF ~isAllowedPath(path)
            THEN [status |-> 403, fetched |-> FALSE, url |-> <<>>,
                  upstream |-> NoRequest]
            ELSE LET url == redditUrl(ensureJson(path), req.forward)
                 IN [status |-> 0, fetched |-> TRUE, url |-> url,
                     upstream |-> requestOf(url)]

\* ================================================== Thresh.Scraper.fetchJSON

MAX_PER_MIN == 10
MINUTE_MS == 60000
DEFAULT_PROXIES == <<"allorigins", "corsproxy">>

\* this.timestamps.filter(t => now - t < 60000)
recent(timestamps) == SelectSeq(timestamps, LAMBDA t : nowMs - t < MINUTE_MS)

\* rateLimiter.record()
record(timestamps) == Append(timestamps, nowMs)

\* the proxies fetchJSON tries, in order, for the saved proxy ("": none saved)
proxyOrder(saved) ==
    LET first_ == IF saved # "" THEN <<saved>> ELSE DEFAULT_PROXIES
        missing(p) == \A i \in 1..Len(first_) : first_[i] # p
    IN first_ \o SelectSeq(DEFAULT_PROXIES, missing)

\* an activation of fetchJSON that is not running
FetchIdle == [pc |-> "idle", j |-> 0, order |-> <<>>]

\* the scraper: timestamps of the rateLimiter, the saved proxy, the times at
\* which a network request was sent, the activations of fetchJSON, and the
\* number of calls that the rateLimiter refused
scraperState(saved) ==
    [fn |-> "fetchJSON", timestamps |-> <<>>, saved |-> saved, sent |-> <<>>,
     acts |-> [k \in 1..MaxOverlap |-> FetchIdle], refused |-> 0]

\* fetchJSON(redditUrl) up to its first await: the check of the rateLimiter
\* and the direct fetch
fetchJSONEnter(s, k) ==
    LET ts == recent(s.timestamps)
    IN IF ~(Len(ts) < MAX_PER_MIN)
       THEN [s EXCEPT !.timestamps = ts, !.refused = @ + 1]
       ELSE [s EXCEPT !.timestamps = ts, !.sent = Append(@, nowMs),
                      !.acts[k] = [pc |-> "direct", j |-> 0, order |-> <<>>]]

\* the direct fetch settles: ok, or not ok or thrown (CORS block)
directSettles(s, k, ok) ==
    IF ok
    THEN [s EXCEPT !.timestamps = record(@), !.acts[k] = FetchIdle]
    ELSE [s EXCEPT !.sent = Append(@, nowMs),
                   !.acts[k] = [pc |-> "proxy", j |-> 1,
                                order |-> proxyOrder(s.saved)]]

\* the fetch through proxyOrder[j] settles
proxySettles(s, k, ok) ==
    LET a == s.acts[k]
    IN IF ok
       THEN [s EXCEPT !.timestamps = record(@), !.saved = a.order[a.j],
                      !.acts[k] = FetchIdle]
       ELSE IF a.j < Len(a.order)
       THEN [s EXCEPT !.sent = Append(@, nowMs), !.acts[k].j = a.j + 1]
       ELSE [s EXCEPT !.acts[k] = FetchIdle]


\* ========================================================== Thresh.Storage

\* The store of collections: idb tells whether IndexedDB opened (the
\* localStorage fallback is used otherwise), nextKey is the key generator of the
\* autoIncrement object store, rows the stored collections in insertion order,
\* exports the thresh_export_count entry.
EmptyDb(idb) == [idb |-> idb, nextKey |-> 1, rows |-> <<>>, exports |-> 0]

RECURSIVE maxId(_)
\* Math.max.apply(null, all.map(c => c.id)) for a non-empty array
maxId(rows) ==
    IF Len(rows) = 1 THEN rows[1].id
    ELSE Max(rows[1].id, maxId(Tail(rows)))

\* saveCollection: the id the collection gets
newId(d) ==
    IF d.idb THEN d.nextKey
    ELSE (IF Len(d.rows) > 0 THEN maxId(d.rows) ELSE 0) + 1

\* saveCollection: store.add with the generated key, or push and lsSaveAll
saveCollection(d, collection) ==
    [d EXCEPT !.rows = Append(@, [collection EXCEPT !.id = newId(d)]),
              !.nextKey = IF d.idb THEN @ + 1 ELSE @]

\* deleteCollection: store.delete(id), or filter and lsSaveAll
deleteCollection(d, id) ==
    [d EXCEPT !.rows = SelectSeq(@, LAMBDA c : c.id # id)]

\* getCollection: the stored collections with this id
getCollection(d, id) == {i \in 1..Len(d.rows) : d.rows[i].id = id}

storedIds(d) == {d.rows[i].id : i \in 1..Len(d.rows)}

\* all.sort((a, b) => (b.id || 0) - (a.id || 0)): by id, largest first, equal
\* ids in their order
insertById(c, sorted) ==
    LET before == {k \in 1..Len(sorted) : sorted[k].id > c.id}
    IN SubSeq(sorted, 1, Cardinality(before)) \o <<c>>
       \o SubSeq(sorted, Cardinality(before) + 1, Len(sorted))

RECURSIVE sortById(_)
sortById(rows) ==
    IF rows = <<>> THEN <<>> ELSE insertById(Head(rows), sortById(Tail(rows)))

\* getCollections: store.getAll() or lsGetAll(), sorted
getCollections(d) == sortById(d.rows)

\* getCollection(id): store.get(id) gives the record or undefined; the
\* fallback gives find(...) || null
getCollectionById(d, id) ==
    IF \E i \in 1..Len(d.rows) : d.rows[i].id = id
    THEN [kind |-> "object",
          value |-> d.rows[CHOOSE i \in 1..Len(d.rows) :
                             /\ d.rows[i].id = id
                             /\ \A j \in 1..(i - 1) : d.rows[j].id # id]]
    ELSE [kind |-> IF d.idb THEN "undefined" ELSE "null",
          value |-> [id |-> 0, serial |-> 0]]


\* recordExport
recordExport(d) == [d EXCEPT !.exports = @ + 1]

\* ====================================================== Thresh.App.doCollection

\* the button enabled, no run in progress
DcIdle ==
    [pc |-> "idle", btnDisabled |-> FALSE, runs |-> 0, nPosts |-> 0,
     includeComments |-> FALSE, i |-> 0, commentCount |-> 0]

\* a collection object saved with the status of a run in progress
builtCollectionInProgress(c) ==
    [id |-> 0, postCount |-> c.nPosts, commentCount |-> c.commentCount,
     status |-> "collecting"]

\* the collection object doCollection builds after the fetches
builtCollection(c) ==
    [id |-> 0, postCount |-> c.nPosts, commentCount |-> c.commentCount,
     status |-> "completed"]

\* the catch clause of doCollection: the error is shown, the button enabled
dcCatch(c) == [c EXCEPT !.pc = "idle", !.btnDisabled = FALSE]

\* head of the comment loop, then the collection object and saveCollection
dcCommentLoop(c) ==
    IF c.includeComments /\ c.nPosts > 0 /\ c.i < Min(c.nPosts, MAX_COMMENT_POSTS)
    THEN [c EXCEPT !.pc = "getComments"]
    ELSE [c EXCEPT !.pc = "save"]

\* ===================================================== ThreshApp.startCollection

\* the submit button of the page and the 1500 ms timer of the success path;
\* ended tells how the last attempt ended
UiIdle ==
    [fn |-> "startCollection", disabled |-> FALSE, enableAt |-> 0,
     ended |-> "none"]

\* startCollection after await RedditClient.collect: no posts, the collection
\* saved and the timer set, or the catch clause
afterCollect(u, c) ==
    IF c.pc = "done"
    THEN IF Len(c.result.posts) = 0
         THEN [u EXCEPT !.disabled = FALSE, !.ended = "empty"]
         ELSE [u EXCEPT !.enableAt = nowMs + NAVIGATE_DELAY_MS, !.ended = "saved"]
    ELSE IF c.pc = "failed"
    THEN IF includesRateLimited(c.err.msg)
         THEN [u EXCEPT !.disabled = TRUE, !.ended = "rateLimited"]
         ELSE [u EXCEPT !.disabled = FALSE, !.ended = "error"]
    ELSE u

\* the callback of the countdown interval: getStatus; when the status is not
\* blocked the interval is cleared and the button enabled
countdownFires(r) ==
    IF ~getStatus(r).blocked
    THEN [rl |-> [getStatusState(r) EXCEPT !.countdown = 0], enable |-> TRUE]
    ELSE [rl |-> [getStatusState(r) EXCEPT !.countdown = @ + MS],
          enable |-> FALSE]


\* =============================================================== actions

\* What localStorage holds when the page loads, written by an earlier visit in
\* the second of the reload: nothing; the headers of a 200 (remaining 5, reset in
\* 1 s, used 7) written by updateFromHeaders; a 429 without Retry-After and with
\* reset in 1 s, written by recordBlock.
SavedStates ==
    {NothingStored,
     [present |-> TRUE, remaining |-> 5, resetAt |-> 2, used |-> 7, blockUntil |-> 0],
     [present |-> TRUE, remaining |-> 0, resetAt |-> 2, used |-> 0,
      blockUntil |-> MS + DEFAULT_BLOCK_SEC * MS]}

\* The page has loaded in second 1 (Date.now() is never 0) and RateLimiter.init()
\* has run.
Init ==
    /\ now = 1
    /\ \E saved \in SavedStates : rl = init(saved)
    /\ co = Idle
    /\ co2 = Idle
    /\ db = EmptyDb(TRUE)
    /\ dc = DcIdle
    /\ call = NoCall

Step(S) == rl' = S.rl /\ co' = S.co

\* ThreshApp.startCollection calls RedditClient.collect(config, onProgress)
Collect ==
    /\ co.pc = "idle"
    /\ \E n \in 1..MaxTargets, limit \in 1..MaxLimit, includeComments \in BOOLEAN :
         \E raw \in [1..n -> RawTokens] :
            Step(collectStart(rl, raw, limit, includeComments))
    /\ UNCHANGED <<now, others>>

\* the 1500 ms pause after the low-quota warning is over
WarnDone ==
    /\ co.pc = "warnWait"
    /\ nowMs >= co.wakeAt
    /\ Step(nextTarget(St(rl, [co EXCEPT !.subIdx = 1, !.wakeAt = 0])))
    /\ UNCHANGED <<now, others>>

\* await fetch(url) resolves with a response
NetResponse ==
    /\ co.pc = "awaitFetch"
    /\ \E resp \in Responses : Step(onResponse(St(rl, co), resp))
    /\ UNCHANGED <<now, others>>

\* await fetch(url) rejects: the network is unreachable
NetThrow ==
    /\ co.pc = "awaitFetch"
    /\ Step(onReject(St(rl, co)))
    /\ UNCHANGED <<now, others>>

\* the backoff timer fires
BackoffDone ==
    /\ co.pc = "backoff"
    /\ nowMs >= co.wakeAt
    /\ Step(afterBackoff(St(rl, [co EXCEPT !.wakeAt = 0])))
    /\ UNCHANGED <<now, others>>

\* the pacing timer after a comment fetch fires: i++
CommentDelayDone ==
    /\ co.pc = "commentDelay"
    /\ nowMs >= co.wakeAt
    /\ Step(commentLoop(St(rl, [co EXCEPT !.cIdx = @ + 1, !.wakeAt = 0])))
    /\ UNCHANGED <<now, others>>

\* the timer between subreddits fires: the next target
SubDelayDone ==
    /\ co.pc = "subDelay"
    /\ nowMs >= co.wakeAt
    /\ Step(nextTarget(St(rl, [co EXCEPT !.subIdx = @ + 1, !.wakeAt = 0])))
    /\ UNCHANGED <<now, others>>

\* the sentinel widget asks RateLimiter.getStatus()
SentinelStatus ==
    /\ rl' = getStatusState(rl)
    /\ UNCHANGED <<now, co, others>>

\* The clock.  Requests are answered within the second and timers fire in the
\* second they are due, so a second passes while a timer is pending, or while
\* the user waits for a cooldown before starting the collection.
timePasses ==
    \/ co.pc \in {"warnWait", "backoff", "commentDelay", "subDelay"} /\ nowMs < co.wakeAt
    \/ co.pc = "idle" /\ nowMs < rl.blockUntil

Tick ==
    /\ now < MaxTime
    /\ timePasses
    /\ now' = now + 1
    /\ UNCHANGED <<rl, co, others>>

Next ==
    \/ Collect
    \/ WarnDone
    \/ NetResponse
    \/ NetThrow
    \/ BackoffDone
    \/ CommentDelayDone
    \/ SubDelayDone
    \/ SentinelStatus
    \/ Tick

Spec == Init /\ [][Next]_vars

\* ------------------------------------------------ one request and its retries

\* collect of one subreddit without comments: a single RedditClient.fetch call
CollectOne ==
    /\ co.pc = "idle"
    /\ \E limit \in 1..MaxLimit : Step(collectStart(rl, <<"a">>, limit, FALSE))
    /\ UNCHANGED <<now, others>>

TickFetch ==
    /\ now < FetchMaxTime
    /\ timePasses
    /\ now' = now + 1
    /\ UNCHANGED <<rl, co, others>>

NextFetch ==
    \/ CollectOne
    \/ NetResponse
    \/ NetThrow
    \/ BackoffDone
    \/ SentinelStatus
    \/ TickFetch

SpecFetch == Init /\ [][NextFetch]_vars


\* ------------------------------------------ one subreddit with its comments

\* collect of one subreddit with includeComments: the listing, then one
\* getComments per post
CollectWithComments ==
    /\ co.pc = "idle"
    /\ \E limit \in 1..MaxLimit : Step(collectStart(rl, <<"a">>, limit, TRUE))
    /\ UNCHANGED <<now, others>>

NextComments ==
    \/ CollectWithComments
    \/ NetResponse
    \/ NetThrow
    \/ BackoffDone
    \/ CommentDelayDone
    \/ SentinelStatus
    \/ Tick

SpecComments == Init /\ [][NextComments]_vars

\* ------------------------------------------------------------ page reloads

\* The user reloads the page: the running collection is gone with the old page,
\* and RateLimiter.init() runs on the fresh object with what localStorage holds.
Reload ==
    /\ rl.loads < MaxLoads
    /\ rl' = [init(rl.stored) EXCEPT !.loads = rl.loads + 1]
    /\ co' = Idle
    /\ UNCHANGED <<now, others>>

NextReload ==
    \/ CollectOne
    \/ NetResponse
    \/ NetThrow
    \/ BackoffDone
    \/ SentinelStatus
    \/ Reload
    \/ Tick

SpecReload == Init /\ [][NextReload]_vars

\* ------------------------------------------------ two targets in one run

\* the page has loaded with nothing stored
InitFresh ==
    /\ now = 1
    /\ rl = init(NothingStored)
    /\ co = Idle
    /\ co2 = Idle
    /\ db = EmptyDb(TRUE)
    /\ dc = DcIdle
    /\ call = NoCall

\* collect of "a" or of "a, b"
CollectUpToTwo ==
    /\ co.pc = "idle"
    /\ \E raw \in {<<"a">>, <<"a", "b">>}, limit \in 1..MaxLimit,
          includeComments \in BOOLEAN :
         Step(collectStart(rl, raw, limit, includeComments))
    /\ UNCHANGED <<now, others>>

NextTargets ==
    \/ CollectUpToTwo
    \/ WarnDone
    \/ NetResponse
    \/ NetThrow
    \/ BackoffDone
    \/ CommentDelayDone
    \/ SubDelayDone
    \/ Tick

SpecTargets == Init /\ [][NextTargets]_vars

\* ------------------------------------------- a run that must come to an end

\* The clock of a liveness check: the wait before the run is bounded, the
\* backoffs of the run (at most MAX_RETRIES of them) always run out.
TickLive ==
    /\ timePasses
    /\ co.pc = "idle" => now < FetchMaxTime
    /\ now' = now + 1
    /\ UNCHANGED <<rl, co, others>>

NextLive ==
    \/ CollectOne
    \/ NetResponse
    \/ NetThrow
    \/ BackoffDone
    \/ TickLive

\* The event loop runs a timer that is due and the clock advances; the page
\* has no hold on the upstream, so the settling of fetch(url), which is called
\* without a signal or a timeout, is left to the environment.
SpecLive ==
    /\ Init
    /\ [][NextLive]_vars
    /\ WF_vars(BackoffDone)
    /\ WF_vars(TickLive)

\* ------------------------------------------------- a run the user gives up

\* The user wants the running collection to stop.  collect(config, onProgress)
\* takes no flag or signal and the page has no control bound to one, so the
\* request changes nothing the run reads.
UserCancels ==
    /\ co.pc \notin {"idle", "done", "failed"}
    /\ ~co.cancel
    /\ co' = [co EXCEPT !.cancel = TRUE]
    /\ UNCHANGED <<now, rl, others>>

NextCancel ==
    \/ CollectWithComments
    \/ NetResponse
    \/ NetThrow
    \/ BackoffDone
    \/ CommentDelayDone
    \/ UserCancels
    \/ Tick

SpecCancel == InitFresh /\ [][NextCancel]_vars

\* ------------------------------------------ updateFromHeaders on its own

\* the rate-limit headers reddit.com may send with a 200: each one or not
UpstreamHeaderSets ==
    UpstreamOutcomes
    \cup [status : {200}, remaining : {<<>>, <<5>>}, reset : {<<>>, <<1>>},
          used : {<<>>, <<7>>}, retryAfter : {<<>>}]

\* the headers of the responses the proxy makes of them
ForwardedHeaders == {onRequestGet(u).headers : u \in UpstreamHeaderSets}

\* the three tracked values
tracked(r) == [remaining |-> r.remaining, resetAt |-> r.resetAt, used |-> r.used]

\* RateLimiter.updateFromHeaders(response.headers), called at second now
UpdateFromHeaders ==
    /\ \E h \in ForwardedHeaders :
          /\ rl' = updateFromHeaders(rl, h)
          /\ call' = [fn |-> "updateFromHeaders", headers |-> h, at |-> now,
                      before |-> tracked(rl), after |-> tracked(rl')]
    /\ UNCHANGED <<now, co, co2, db, dc>>

TickHeaders ==
    /\ now < MaxTime
    /\ now' = now + 1
    /\ UNCHANGED <<rl, co, others>>

NextHeaders ==
    \/ UpdateFromHeaders
    \/ TickHeaders

SpecHeaders == Init /\ [][NextHeaders]_vars

\* ------------------------------------------------ exports with anonymize

\* the authors of the records: no author, [deleted], "a", and the two longest
\* names "aa...a", long enough for the hash to leave 31 bits
Names ==
    {<<>>, Deleted}
    \cup {[i \in 1..n |-> 97] : n \in {1, MaxNameLen - 1, MaxNameLen}}

\* An export with anonymize = true of a collection of one post and one comment,
\* by Thresh.Export.exportCollection or by Exporter.exportZip.  seen keeps the
\* post record of the export before.
ExportAnonymized ==
    /\ \E impl \in {"Thresh.Export", "Exporter"}, pa \in Names, ca \in Names :
         LET old == IF call.fn = "export" THEN call.post
                    ELSE [impl |-> "none", author |-> <<>>, out |-> <<>>, at |-> 0]
         IN call' = [fn |-> "export", impl |-> impl, at |-> now,
                     post |-> [impl |-> impl, author |-> pa,
                               out |-> exportedAuthor(impl, pa), at |-> now],
                     comment |-> [impl |-> impl, author |-> ca,
                                  out |-> exportedAuthor(impl, ca), at |-> now],
                     seen |-> old]
    /\ UNCHANGED <<now, rl, co, co2, db, dc>>

TickExport ==
    /\ now < MaxExportTime
    /\ now' = now + 1
    /\ UNCHANGED <<rl, co, others>>

NextAnon ==
    \/ ExportAnonymized
    \/ TickExport

SpecAnon == InitFresh /\ [][NextAnon]_vars

\* ------------------------------------------------- exports with filters

\* what a stored post can look like: its score, its title or selftext in mixed
\* case, its author
PostKinds ==
    [score : {1, 10, 20},
     text : {[title |-> <<65, 98>>, selftext |-> <<>>],
             [title |-> <<98>>, selftext |-> <<98, 65>>]},
     author : {<<97>>}]

\* collections of up to MaxExportPosts posts, with their ids in order
ExportCollections ==
    UNION {[1..n -> PostKinds] : n \in 0..MaxExportPosts}

storedPost(k, i) ==
    [id |-> i, score |-> k.score, title |-> k.text.title,
     selftext |-> k.text.selftext, author |-> k.author]

\* minScore 0 and keyword "" are the options left out; keywords a, AB, ba
ExportOptions ==
    [minScore : {0, 5, 10}, keyword : {<<>>, <<97>>, <<65, 66>>, <<98, 97>>},
     anonymize : BOOLEAN]

\* the page holds a collection and the user has chosen the export options
InitExport ==
    /\ now = 1
    /\ rl = init(NothingStored)
    /\ co = Idle
    /\ co2 = Idle
    /\ db = EmptyDb(TRUE)
    /\ dc = DcIdle
    /\ \E kinds \in ExportCollections, format \in {"csv", "json", "jsonl"},
          options \in ExportOptions :
         call = [fn |-> "chosen",
                 collection |-> [i \in 1..Len(kinds) |-> storedPost(kinds[i], i)],
                 format |-> format, options |-> options]

\* Thresh.Export.exportCollection(collection, format, options)
ExportCollection ==
    /\ call.fn = "chosen"
    /\ call' = [fn |-> "exportCollection", collection |-> call.collection,
                format |-> call.format, options |-> call.options,
                data |-> exportCollection(call.collection, call.format,
                                          call.options)]
    /\ db' = recordExport(db)
    /\ UNCHANGED <<now, rl, co, co2, dc>>

NextExport == ExportCollection

SpecExport == InitExport /\ [][NextExport]_vars

\* ---------------------------------------------------- export archives

\* the comments of a collection of n posts, as Thresh.Export reads them (by
\* post) and as Exporter reads them (one list): none at all, an empty
\* container, no comment under the first post, a comment under every post
exportComment(i) ==
    [id |-> i, author |-> <<97>>, body |-> <<98>>, score |-> 1,
     parentId |-> 0, depth |-> 0]

CommentShapes(n) ==
    {[defined |-> FALSE, byPost |-> <<>>, list |-> <<>>],
     [defined |-> TRUE, byPost |-> <<>>, list |-> <<>>],
     [defined |-> TRUE, byPost |-> [i \in 1..n |-> <<>>], list |-> <<>>],
     [defined |-> TRUE, byPost |-> [i \in 1..n |-> <<exportComment(i)>>],
      list |-> [i \in 1..n |-> exportComment(i)]]}

archivePost(i) ==
    [id |-> i, score |-> 10, title |-> <<65, 98>>, selftext |-> <<>>,
     author |-> <<97>>]

\* a stored collection of Thresh.Storage and of the Exporter's page, of n
\* posts, with or without a search query
archiveCollection(n, comments, query) ==
    [subreddit |-> <<97>>, query |-> query, sort |-> <<>>, timeFilter |-> <<>>,
     limit |-> n, postCount |-> n, commentCount |-> Len(comments.list),
     createdAt |-> 0, status |-> "",
     posts |-> [i \in 1..n |-> archivePost(i)], comments |-> comments,
     config |-> [subreddit |-> <<97>>, sort |-> <<104>>, timeFilter |-> <<>>,
                 limit |-> n, keyword |-> query,
                 includeComments |-> comments.defined],
     timestamp |-> 1]

\* the page holds a collection and the user has chosen format and options;
\* the Exporter's formats are csv and json
InitArchive ==
    /\ now = 1
    /\ rl = init(NothingStored)
    /\ co = Idle
    /\ co2 = Idle
    /\ db = EmptyDb(TRUE)
    /\ dc = DcIdle
    /\ \E impl \in {"Thresh.Export", "Exporter"}, n \in 0..MaxArchivePosts,
          format \in {"csv", "json", "jsonl"}, anonymize_ \in BOOLEAN,
          includeComments \in BOOLEAN, minScore \in {0, 5},
          query \in {<<>>, <<113>>} :
         \E comments \in CommentShapes(n) :
            /\ impl = "Exporter"
               => format # "jsonl" /\ minScore = 0 /\ ~includeComments
            /\ call = [fn |-> "archive", impl |-> impl, n |-> 0,
                       collection |-> archiveCollection(n, comments, query),
                       format |-> format,
                       options |-> [format |-> format, anonymize |-> anonymize_,
                                    includeComments |-> includeComments,
                                    minScore |-> minScore, keyword |-> <<>>],
                       zip |-> <<>>, at |-> 0, before |-> <<>>, beforeAt |-> 0]

\* Thresh.Export.exportCollection(collection, format, options), the export
\* recorded at its end
ExportCollectionZip ==
    /\ call.fn = "archive"
    /\ call.impl = "Thresh.Export"
    /\ call.n < MaxExports
    /\ call' = [call EXCEPT
                  !.n = @ + 1,
                  !.zip = exportCollectionZip(call.collection, call.format,
                                              call.options, now),
                  !.at = now, !.before = call.zip, !.beforeAt = call.at]
    /\ db' = recordExport(db)
    /\ UNCHANGED <<now, rl, co, co2, dc>>

\* Exporter.exportZip(collection, options)
ExportZip ==
    /\ call.fn = "archive"
    /\ call.impl = "Exporter"
    /\ call.n < MaxExports
    /\ call' = [call EXCEPT
                  !.n = @ + 1,
                  !.zip = exportZip(call.collection, call.options, now),
                  !.at = now, !.before = call.zip, !.beforeAt = call.at]
    /\ UNCHANGED <<now, rl, co, co2, db, dc>>

NextArchive ==
    \/ ExportCollectionZip
    \/ ExportZip
    \/ TickExport

SpecArchive == InitArchive /\ [][NextArchive]_vars


\* ---------------------------------------------------- data files read back

\* titles of a post: plain, with a comma, a double quote, a line feed, a
\* carriage return, both, and empty; bodies: none and two paragraphs
Titles ==
    {<<"a">>, <<"a", COMMA, "b">>, <<"a", QUOTE, "b">>, <<"a", LF, "b">>,
     <<"a", CR, "b">>, <<"a", CR, LF, "b">>, <<>>}

Bodies == {<<>>, <<"b", LF, LF, "c", BACKSLASH>>}

filePost(i, title, selftext) ==
    [id |-> <<"p" \o ToString(i)>>, title |-> title, score |-> 10 + i,
     numComments |-> i - 1, selftext |-> selftext]

\* a collection of up to MaxFilePosts posts is to be exported; the Exporter
\* writes csv and json
InitFile ==
    /\ now = 1
    /\ rl = init(NothingStored)
    /\ co = Idle
    /\ co2 = Idle
    /\ db = EmptyDb(TRUE)
    /\ dc = DcIdle
    /\ \E impl \in {"Thresh.Export", "Exporter"},
          format \in {"csv", "json", "jsonl"}, n \in 0..MaxFilePosts :
         \E titles \in [1..n -> Titles], bodies \in [1..n -> Bodies] :
            /\ impl = "Exporter" => format # "jsonl"
            /\ call = [fn |-> "file", impl |-> impl, format |-> format,
                       posts |-> [i \in 1..n |-> filePost(i, titles[i], bodies[i])],
                       pc |-> "chosen", text |-> <<>>, tuples |-> {}]

\* the data file is written: toCSV, toJSONL, toJSON, Exporter._toCSV
WriteDataFile ==
    /\ call.fn = "file"
    /\ call.pc = "chosen"
    /\ call' = [call EXCEPT !.pc = "written",
                            !.text = dataFile(call.impl, call.format, call.posts)]
    /\ UNCHANGED <<now, rl, co, co2, db, dc>>

\* the data file is parsed back
ReadDataFile ==
    /\ call.fn = "file"
    /\ call.pc = "written"
    /\ call' = [call EXCEPT !.pc = "read",
                            !.tuples = tuplesOfFile(call.format, call.text)]
    /\ UNCHANGED <<now, rl, co, co2, db, dc>>

NextFile ==
    \/ WriteDataFile
    \/ ReadDataFile

SpecFile == InitFile /\ [][NextFile]_vars


\* ------------------------------------------------------- comment trees

\* the raw comment at a path of child numbers, its id the path
rawComment(path, kind, hasDepth, replies) ==
    [kind |-> kind, id |-> path, parent_id |-> SubSeq(path, 1, Len(path) - 1),
     depth |-> IF hasDepth THEN Len(path) - 1 ELSE -1, replies |-> replies]

\* the raw trees at a path with at most height levels of replies: a comment
\* or a stub, a comment with one reply tree, with a reply tree and a reply
RECURSIVE RawTrees(_, _, _)
RawTrees(height, path, hasDepth) ==
    {rawComment(path, kind, hasDepth, <<>>) : kind \in {"t1", "more"}}
    \cup (IF height = 0 THEN {}
          ELSE LET below == RawTrees(height - 1, Append(path, 1), hasDepth)
                   sibling == rawComment(Append(path, 2), "t1", hasDepth, <<>>)
               IN {rawComment(path, "t1", hasDepth, <<c>>) : c \in below}
                  \cup {rawComment(path, "t1", hasDepth, <<c, sibling>>) :
                           c \in below})

\* a listing with one tree of comments has arrived
InitTree ==
    /\ now = 1
    /\ rl = init(NothingStored)
    /\ co = Idle
    /\ co2 = Idle
    /\ db = EmptyDb(TRUE)
    /\ dc = DcIdle
    /\ \E hasDepth \in BOOLEAN, impl \in {"RedditClient", "Thresh.Reddit"} :
         \E tree \in RawTrees(MaxNesting, <<1>>, hasDepth) :
            call = [fn |-> "comments", impl |-> impl, listing |-> <<tree>>,
                    pc |-> "arrived", out |-> <<>>]

\* RedditClient._parseComments(data[1])
ParseComments ==
    /\ call.fn = "comments"
    /\ call.impl = "RedditClient"
    /\ call.pc = "arrived"
    /\ call' = [call EXCEPT !.pc = "flat",
                            !.out = parseCommentListing(call.listing)]
    /\ UNCHANGED <<now, rl, co, co2, db, dc>>

\* flatten(commentListing.data.children) of Thresh.Reddit.getComments
FlattenComments ==
    /\ call.fn = "comments"
    /\ call.impl = "Thresh.Reddit"
    /\ call.pc = "arrived"
    /\ call' = [call EXCEPT !.pc = "flat", !.out = flatten(call.listing)]
    /\ UNCHANGED <<now, rl, co, co2, db, dc>>

NextTree ==
    \/ ParseComments
    \/ FlattenComments

SpecTree == InitTree /\ [][NextTree]_vars


\* ------------------------------------------------- the store's contract

\* The page calls the store.  call keeps what the callers have seen: issued,
\* the id returned by each saveCollection in the order of the saves; live, the
\* saves whose collection has not been deleted; deleted, the ids that
\* deleteCollection has removed a collection for; and the last call with its
\* result.
InitIds ==
    /\ now = 1
    /\ rl = init(NothingStored)
    /\ co = Idle
    /\ co2 = Idle
    /\ \E idb \in BOOLEAN : db = EmptyDb(idb)
    /\ dc = DcIdle
    /\ call = [fn |-> "store", op |-> "none", id |-> 0, issued |-> <<>>,
               live |-> {}, deleted |-> {},
               one |-> [kind |-> "none", value |-> [id |-> 0, serial |-> 0]],
               all |-> <<>>]

\* saveCollection(collection) resolves with the collection and its id
SaveCollection ==
    /\ call.fn = "store"
    /\ Len(call.issued) < MaxSaves
    /\ db' = saveCollection(db, [id |-> 0, serial |-> Len(call.issued) + 1])
    /\ call' = [call EXCEPT !.op = "saveCollection", !.id = newId(db),
                            !.issued = Append(@, newId(db)),
                            !.live = @ \cup {Len(call.issued) + 1}]
    /\ UNCHANGED <<now, rl, co, co2, dc>>

\* deleteCollection(id), for an id of the store or any other
DeleteById ==
    /\ call.fn = "store"
    /\ \E id \in 1..(MaxSaves + 1) :
         /\ db' = deleteCollection(db, id)
         /\ call' = [call EXCEPT
                       !.op = "deleteCollection", !.id = id,
                       !.live = {s \in @ : call.issued[s] # id},
                       !.deleted = IF \E s \in call.live : call.issued[s] = id
                                   THEN @ \cup {id} ELSE @]
    /\ UNCHANGED <<now, rl, co, co2, dc>>

\* getCollection(id)
GetCollection ==
    /\ call.fn = "store"
    /\ \E id \in 1..(MaxSaves + 1) :
         call' = [call EXCEPT !.op = "getCollection", !.id = id,
                              !.one = getCollectionById(db, id)]
    /\ UNCHANGED <<now, rl, co, co2, db, dc>>

\* getCollections()
GetCollections ==
    /\ call.fn = "store"
    /\ call' = [call EXCEPT !.op = "getCollections", !.all = getCollections(db)]
    /\ UNCHANGED <<now, rl, co, co2, db, dc>>

NextIds ==
    \/ SaveCollection
    \/ DeleteById
    \/ GetCollection
    \/ GetCollections

SpecIds == InitIds /\ [][NextIds]_vars


\* ------------------------------------------------- the page's submit button

InitUi ==
    /\ now = 1
    /\ \E saved \in SavedStates : rl = init(saved)
    /\ co = Idle
    /\ co2 = Idle
    /\ db = EmptyDb(TRUE)
    /\ dc = DcIdle
    /\ call = UiIdle

\* a step of collect, and startCollection continuing when collect has
\* returned or thrown
StepUi(S, u) ==
    /\ rl' = S.rl
    /\ co' = IF S.co.pc \in {"done", "failed"} THEN Idle ELSE S.co
    /\ call' = afterCollect(u, S.co)

\* the form is submitted: startCollection up to await RedditClient.collect, or
\* the toast when the tracker is blocked
StartCollection ==
    /\ call.fn = "startCollection"
    /\ ~call.disabled
    /\ co.pc = "idle"
    /\ IF isBlocked(rl)
       THEN rl' = isBlockedState(rl) /\ UNCHANGED <<co, call>>
       ELSE \E limit \in 1..MaxLimit :
               StepUi(collectStart(rl, <<"a">>, limit, FALSE),
                      [call EXCEPT !.disabled = TRUE, !.ended = "none"])
    /\ UNCHANGED <<now, co2, db, dc>>

UiWarnDone ==
    /\ co.pc = "warnWait"
    /\ nowMs >= co.wakeAt
    /\ StepUi(nextTarget(St(rl, [co EXCEPT !.subIdx = 1, !.wakeAt = 0])), call)
    /\ UNCHANGED <<now, co2, db, dc>>

UiNetResponse ==
    /\ call.fn = "startCollection"
    /\ co.pc = "awaitFetch"
    /\ \E resp \in Responses : StepUi(onResponse(St(rl, co), resp), call)
    /\ UNCHANGED <<now, co2, db, dc>>

UiNetThrow ==
    /\ call.fn = "startCollection"
    /\ co.pc = "awaitFetch"
    /\ StepUi(onReject(St(rl, co)), call)
    /\ UNCHANGED <<now, co2, db, dc>>

UiBackoffDone ==
    /\ call.fn = "startCollection"
    /\ co.pc = "backoff"
    /\ nowMs >= co.wakeAt
    /\ StepUi(afterBackoff(St(rl, [co EXCEPT !.wakeAt = 0])), call)
    /\ UNCHANGED <<now, co2, db, dc>>

\* the timer of the success path fires: the button is enabled
EnableTimerFires ==
    /\ call.fn = "startCollection"
    /\ call.enableAt > 0
    /\ nowMs >= call.enableAt
    /\ call' = [call EXCEPT !.disabled = FALSE, !.enableAt = 0]
    /\ UNCHANGED <<now, rl, co, co2, db, dc>>

\* the countdown interval fires
CountdownFires ==
    /\ call.fn = "startCollection"
    /\ rl.countdown > 0
    /\ nowMs >= rl.countdown
    /\ rl' = countdownFires(rl).rl
    /\ call' = IF countdownFires(rl).enable THEN [call EXCEPT !.disabled = FALSE]
               ELSE call
    /\ UNCHANGED <<now, co, co2, db, dc>>

\* The clock of the page: requests are answered within the second and timers
\* fire in the second they are due.
TickUi ==
    /\ now < FetchMaxTime
    /\ co.pc # "awaitFetch"
    /\ ~(co.pc \in {"warnWait", "backoff"} /\ nowMs >= co.wakeAt)
    /\ ~(call.enableAt > 0 /\ nowMs >= call.enableAt)
    /\ ~(rl.countdown > 0 /\ nowMs >= rl.countdown)
    /\ now' = now + 1
    /\ UNCHANGED <<rl, co, others>>

NextUi ==
    \/ StartCollection
    \/ UiWarnDone
    \/ UiNetResponse
    \/ UiNetThrow
    \/ UiBackoffDone
    \/ EnableTimerFires
    \/ CountdownFires
    \/ TickUi

SpecUi == InitUi /\ [][NextUi]_vars


\* ------------------------------------------------- requests to the proxy

\* the pieces a requested path is made of
PathSegments ==
    {<<>>, <<"r">>, <<"x">>, DOUBLE_DOT, <<"user">>, <<"subreddits">>,
     <<"search", DOT, "json">>, <<"subreddits", DOT, "json">>}

RECURSIVE SegmentLists(_)
SegmentLists(n) ==
    IF n = 0 THEN {<<>>}
    ELSE SegmentLists(n - 1)
         \cup {Append(l, s) : l \in SegmentLists(n - 1), s \in PathSegments}

\* the values of the path parameter: none, or segments joined by "/", after
\* zero to two leading slashes, with or without a query
RequestPaths ==
    {lead \o joinSegments(l) \o q :
        lead \in {<<>>, <<SLASH>>, <<SLASH, SLASH>>},
        l \in SegmentLists(MaxSegments),
        q \in {<<>>, <<QMARK, "t=week">>}}

ProxyRequests == [path : RequestPaths, forward : {<<>>, <<"limit=5">>}]

\* a GET request has reached the function
InitProxy ==
    /\ now = 1
    /\ rl = init(NothingStored)
    /\ co = Idle
    /\ co2 = Idle
    /\ db = EmptyDb(TRUE)
    /\ dc = DcIdle
    /\ call \in [fn : {"request"}, req : ProxyRequests, status : {0},
                 fetched : {FALSE}, url : {<<>>}, upstream : {NoRequest}]

\* the function answers the request or fetches from Reddit
OnRequestGet ==
    /\ call.fn = "request"
    /\ LET h == onRequestGetPath(call.req)
       IN call' = [fn |-> IF h.fetched THEN "fetching" ELSE "answered",
                   req |-> call.req, status |-> h.status, fetched |-> h.fetched,
                   url |-> h.url, upstream |-> h.upstream]
    /\ UNCHANGED <<now, rl, co, co2, db, dc>>

\* Reddit answers, or the fetch throws, and the function answers the browser
UpstreamAnswers ==
    /\ call.fn = "fetching"
    /\ \E u \in UpstreamOutcomes :
         call' = [call EXCEPT !.fn = "answered", !.status = onRequestGet(u).status]
    /\ UNCHANGED <<now, rl, co, co2, db, dc>>

NextProxy ==
    \/ OnRequestGet
    \/ UpstreamAnswers

SpecProxy == InitProxy /\ [][NextProxy]_vars


\* ------------------------------------------------- the scraper's requests

InitScraper ==
    /\ now = 1
    /\ rl = init(NothingStored)
    /\ co = Idle
    /\ co2 = Idle
    /\ db = EmptyDb(TRUE)
    /\ dc = DcIdle
    /\ \E saved \in {"", "corsproxy", "custom"} : call = scraperState(saved)

\* a caller of the scraper calls fetchJSON
FetchJSON ==
    /\ Len(call.sent) < MaxSent
    /\ call.refused < MaxRefused
    /\ \E k \in 1..MaxOverlap :
         /\ call.acts[k].pc = "idle"
         /\ call' = fetchJSONEnter(call, k)
    /\ UNCHANGED <<now, rl, co, co2, db, dc>>

DirectSettles ==
    /\ \E k \in 1..MaxOverlap, ok \in BOOLEAN :
         /\ call.acts[k].pc = "direct"
         /\ call' = directSettles(call, k, ok)
    /\ UNCHANGED <<now, rl, co, co2, db, dc>>

ProxySettles ==
    /\ \E k \in 1..MaxOverlap, ok \in BOOLEAN :
         /\ call.acts[k].pc = "proxy"
         /\ call' = proxySettles(call, k, ok)
    /\ UNCHANGED <<now, rl, co, co2, db, dc>>

\* half a minute passes
TickScraper ==
    /\ now + HalfMinute <= MaxScraperTime
    /\ now' = now + HalfMinute
    /\ UNCHANGED <<rl, co, others>>

NextScraper ==
    \/ FetchJSON
    \/ DirectSettles
    \/ ProxySettles
    \/ TickScraper

SpecScraper == InitScraper /\ [][NextScraper]_vars


\* ------------------------------------------------- authors told apart

\* usernames: [deleted], "a", "b", "Aa", "BB", "Ab"
AuthorNames ==
    {Deleted, <<97>>, <<98>>, <<65, 97>>, <<66, 66>>, <<65, 98>>}

RECURSIVE AuthorLists(_)
AuthorLists(n) ==
    IF n = 0 THEN {<<>>}
    ELSE AuthorLists(n - 1)
         \cup {Append(l, a) : l \in AuthorLists(n - 1), a \in AuthorNames}

\* a collection whose records have these authors is about to be exported
InitAuthors ==
    /\ now = 1
    /\ rl = init(NothingStored)
    /\ co = Idle
    /\ co2 = Idle
    /\ db = EmptyDb(TRUE)
    /\ dc = DcIdle
    /\ call \in [fn : {"authors"}, impl : {"Thresh.Export", "Exporter"},
                 raw : AuthorLists(MaxAuthors) \ {<<>>}, out : {<<>>}]

\* the export with anonymize = true replaces the author of every record
AnonymizeAuthors ==
    /\ call.fn = "authors"
    /\ call' = [call EXCEPT !.fn = "anonymized",
                            !.out = [i \in 1..Len(call.raw) |->
                                        exportedAuthor(call.impl, call.raw[i])]]
    /\ UNCHANGED <<now, rl, co, co2, db, dc>>

NextAuthors == AnonymizeAuthors

SpecAuthors == InitAuthors /\ [][NextAuthors]_vars


\* ------------------------------------------------- two overlapping runs

\* RedditClient.collect has no guard against a second call while one runs, and
\* the sentinel's countdown re-enables the thresh button at the end of a
\* cooldown whether or not a run is still retrying.  The second activation has
\* its own locals and shares the RateLimiter singleton.
Step2(S) == rl' = S.rl /\ co2' = S.co

CollectOne2 ==
    /\ co2.pc = "idle"
    /\ \E limit \in 1..MaxLimit : Step2(collectStart(rl, <<"b">>, limit, FALSE))
    /\ UNCHANGED <<now, co, db, dc, call>>

NetResponse2 ==
    /\ co2.pc = "awaitFetch"
    /\ \E resp \in Responses : Step2(onResponse(St(rl, co2), resp))
    /\ UNCHANGED <<now, co, db, dc, call>>

NetThrow2 ==
    /\ co2.pc = "awaitFetch"
    /\ Step2(onReject(St(rl, co2)))
    /\ UNCHANGED <<now, co, db, dc, call>>

BackoffDone2 ==
    /\ co2.pc = "backoff"
    /\ nowMs >= co2.wakeAt
    /\ Step2(afterBackoff(St(rl, [co2 EXCEPT !.wakeAt = 0])))
    /\ UNCHANGED <<now, co, db, dc, call>>

\* a timer of the activation c is due / is pending
timerDue(c) == c.pc = "backoff" /\ nowMs >= c.wakeAt
timerPending(c) == c.pc = "backoff" /\ nowMs < c.wakeAt

\* The clock with two runs: no request is awaiting its answer, no timer is due,
\* and a timer or a cooldown is pending.
TickTwo ==
    /\ now < MaxTime
    /\ co.pc # "awaitFetch" /\ co2.pc # "awaitFetch"
    /\ ~timerDue(co) /\ ~timerDue(co2)
    /\ \/ timerPending(co)
       \/ timerPending(co2)
       \/ nowMs < rl.blockUntil /\ "idle" \in {co.pc, co2.pc}
    /\ now' = now + 1
    /\ UNCHANGED <<rl, co, co2, db, dc, call>>

NextTwo ==
    \/ CollectOne
    \/ CollectOne2
    \/ NetResponse
    \/ NetResponse2
    \/ NetThrow
    \/ NetThrow2
    \/ BackoffDone
    \/ BackoffDone2
    \/ TickTwo

SpecTwo == Init /\ [][NextTwo]_vars

\* ------------------------------------------- doCollection and the storage

\* the page loads with an empty store, on IndexedDB or on the fallback
InitStore ==
    /\ now = 1
    /\ rl = init(NothingStored)
    /\ co = Idle
    /\ co2 = Idle
    /\ \E idb \in BOOLEAN : db = EmptyDb(idb)
    /\ dc = DcIdle
    /\ call = NoCall

\* the Begin Collection button: doCollection up to await getPosts
DoCollection ==
    /\ ~dc.btnDisabled
    /\ dc.runs < MaxRuns
    /\ \E includeComments \in BOOLEAN :
         dc' = [DcIdle EXCEPT !.pc = "getPosts", !.btnDisabled = TRUE,
                              !.runs = dc.runs + 1,
                              !.includeComments = includeComments]
    /\ UNCHANGED <<engine, db>>

\* Thresh.Reddit.getPosts resolves
PostsArrive ==
    /\ dc.pc = "getPosts"
    /\ \E n \in 0..MaxPosts : dc' = dcCommentLoop([dc EXCEPT !.nPosts = n])
    /\ UNCHANGED <<engine, db>>

\* Thresh.Reddit.getPosts rejects
PostsFail ==
    /\ dc.pc = "getPosts"
    /\ dc' = dcCatch(dc)
    /\ UNCHANGED <<engine, db>>

\* getComments resolves; the 200 ms pause is part of the step
CommentsArrive ==
    /\ dc.pc = "getComments"
    /\ \E k \in 0..MaxComments :
         dc' = dcCommentLoop([dc EXCEPT !.commentCount = @ + k, !.i = @ + 1])
    /\ UNCHANGED <<engine, db>>

\* getComments rejects: the post is skipped
CommentsFail ==
    /\ dc.pc = "getComments"
    /\ dc' = dcCommentLoop([dc EXCEPT !.i = @ + 1])
    /\ UNCHANGED <<engine, db>>

\* await Thresh.Storage.saveCollection(collection) resolves
SaveDone ==
    /\ dc.pc = "save"
    /\ db' = saveCollection(db, builtCollection(dc))
    /\ dc' = [dc EXCEPT !.pc = "idle", !.btnDisabled = FALSE]
    /\ UNCHANGED engine

\* saveCollection rejects (the store is full or the transaction fails)
SaveFail ==
    /\ dc.pc = "save"
    /\ dc' = dcCatch(dc)
    /\ UNCHANGED <<engine, db>>

\* deleteHarvestCollection of a collection chosen in the select
DeleteCollection ==
    /\ \E id \in storedIds(db) : db' = deleteCollection(db, id)
    /\ UNCHANGED <<engine, dc>>

\* doExport of a collection chosen in the select: the collection is read and
\* the export counted
DoExport ==
    /\ db.exports < MaxRuns
    /\ \E id \in storedIds(db) :
         getCollection(db, id) # {} /\ db' = recordExport(db)
    /\ UNCHANGED <<engine, dc>>

NextStore ==
    \/ DoCollection
    \/ PostsArrive
    \/ PostsFail
    \/ CommentsArrive
    \/ CommentsFail
    \/ SaveDone
    \/ SaveFail
    \/ DeleteCollection
    \/ DoExport

SpecStore == InitStore /\ [][NextStore]_vars

\* ================================================================ properties

\* the fields of the tracker that are the program's (the history fields aside)
quotaState(r) == <<r.remaining, r.used, r.resetAt, r.blocked, r.blockUntil, r.stored>>

(* C1: no request is issued while the tracker is in a cooldown.  A collect   *)
(* called during a cooldown fails at once with the quota error that carries  *)
(* the seconds left, without a network call; and whenever a request is       *)
(* issued, first attempt or retry, the tracker holds no unexpired cooldown.  *)
C1_NoRequestDuringCooldown ==
    [][ /\ (co.pc = "idle" /\ co'.pc # "idle" /\ nowMs < rl.blockUntil)
            => /\ co'.pc = "failed"
               /\ includesRateLimited(co'.err.msg)
               /\ co'.err.secs = CeilDiv(rl.blockUntil - nowMs, MS)
               /\ co'.netCalls = 0
        /\ (co'.netCalls > co.netCalls) => ~(nowMs < rl'.blockUntil) ]_vars

(* C2: after recordBlock(R) in second t, isBlocked is true at every moment   *)
(* before t + R and false at every moment from t + R on, for every R >= 0,   *)
(* whatever updateFromHeaders, getStatus and notifications come in between.  *)
C2_BlockedForExactlyR ==
    rl.throttleAt > 0 => (isBlocked(rl) <=> now < rl.throttleAt + rl.throttleSec)

(* C3: a rate-limit error after the first listing has been gathered never    *)
(* ends collect in an exception: collect returns what it has gathered.       *)
C3_QuotaErrorReturnsGathered ==
    ~(co.pc = "failed" /\ includesRateLimited(co.err.msg) /\ co.subIdx > 1)


\* the step in which a comment fetch fails with an error other than a rate limit
commentFetchFails ==
    /\ co.pc = "awaitFetch" /\ co.phase = "comments"
    /\ co'.err # NoError /\ ~includesRateLimited(co'.err.msg)

C5_ListingFailureAbortsOneTarget ==
    ~(/\ co.pc = "failed" /\ co.phase = "listing"
      /\ ~includesRateLimited(co.err.msg)
      /\ (co.subIdx < Len(co.subs) \/ Len(co.allPosts) > 0))

(* C6: in the Collection a run returns, every post id occurs once.           *)
C6_PostIdsUnique ==
    co.pc = "done" =>
        \A i, j \in 1..Len(co.result.posts) :
            co.result.posts[i].id = co.result.posts[j].id => i = j

(* C7: a run over one target whose first page arrived follows the cursor:    *)
(* ceil(limit / PageSize) listing fetches, or as many as the Available items *)
(* fill, and min(limit, Available) posts collected.                          *)
C7_PagesFollowCursor ==
    (co.pc = "done" /\ Len(co.subs) = 1 /\ Len(co.result.posts) > 0)
        => /\ co.pages = Min(CeilDiv(co.limit, PageSize), CeilDiv(Available, PageSize))
           /\ Len(co.result.posts) = Min(co.limit, Available)

\* the step in which a response with this status is handled
answered(status) == co.pc = "awaitFetch" /\ co'.lastStatus = status

answeredError == co.pc = "awaitFetch" /\ co'.lastStatus >= 400 /\ co'.lastStatus # 429

(* C10, as claimed: an error response other than a 429 ends the call after   *)
(* that attempt, without retry or backoff, and the error carries the status. *)
C10_ErrorCarriesStatus ==
    [][ answeredError
            => /\ co'.pc \notin {"backoff", "awaitFetch"}
               /\ co'.netCalls = co.netCalls
               /\ co'.err.status = co'.lastStatus ]_vars

(* C10, amended: an error response other than a 429 ends the call after that *)
(* attempt, without retry or backoff.  The error carries the message of the  *)
(* response body (the proxy's text for the status) and no status; the status *)
(* appears only in the fallback used when the JSON body has no error member, *)
(* and a body that is not JSON gives the parse error.                        *)
C10_ErrorCarriesMessage ==
    [][ answeredError
            => /\ co'.pc \notin {"backoff", "awaitFetch"}
               /\ co'.netCalls = co.netCalls
               /\ co.phase = "listing" => co'.pc = "failed"
               /\ co.phase = "comments" => co'.pc = "commentDelay"
               /\ \/ co'.err = Error(proxyMessage(co'.lastStatus), 0, 0)
                  \/ co'.err = Error("FailedToReach", 0, 0) /\ co'.lastStatus = 502
                  \/ co'.err = Error("StatusN", 0, co'.lastStatus)
                  \/ co'.err = Error("SyntaxError", 0, 0) ]_vars

\* a listing was answered 404 and collect has failed with the proxy's message
C10_Witness ==
    /\ co.pc = "failed" /\ co.lastStatus = 404
    /\ co.err = Error("NotFound", 0, 0) /\ co.netCalls = 1


\* the status values of the stored collections with this id (none: not stored)
statuses(d, id) == {d.rows[i].status : i \in getCollection(d, id)}

TerminalStatus == {"completed", "partial", "failed"}

C12_CooldownSurvivesReload ==
    [][ (rl'.loads > rl.loads /\ nowMs < rl.stored.blockUntil)
            => (isBlocked(rl') /\ rl'.blockUntil = rl.stored.blockUntil) ]_vars

\* C13: two overlapping runs share the tracker and no update of it is lost: a
\* cooldown recorded by one run's throttle response is not erased by the other
\* run's handling of a successful retry before that cooldown has elapsed.
\* The run handling the 200 of a retry passed the block check when it issued
\* the request, so an unelapsed cooldown it meets was recorded by the other run.
keepsCooldown(c, cn, other) ==
    (/\ c.pc = "awaitFetch" /\ c.attempt > 0 /\ cn.lastStatus = 200
     /\ other.lastStatus = 429
     /\ rl.blocked /\ nowMs < rl.blockUntil)
    => (rl'.blockUntil = rl.blockUntil /\ rl'.stored.blockUntil = rl.stored.blockUntil)

C13_CooldownOfOtherRunKept ==
    [][/\ (co' # co => keepsCooldown(co, co', co2))
       /\ (co2' # co2 => keepsCooldown(co2, co2', co))]_vars

\* C14: within one run the network operations are sequential: at most one
\* request of the run is in flight at any moment, the targets are processed one
\* after another (a request is never for an earlier target than the one
\* before), and a comment fetch is issued only after the listing of its target
\* has arrived.
requestIssued == co'.netCalls > co.netCalls

C14_RequestsSequential ==
    [][/\ co'.inFlight <= 1
       /\ requestIssued =>
            /\ co'.netCalls = co.netCalls + 1
            /\ co'.subIdx >= co.subIdx
            /\ co'.phase = "comments" => (co'.pages = 1 /\ co'.cIdx \in 1..co'.nPosts)
            /\ co'.phase = "listing" => co'.pages = 0]_vars

\* the comments of a post of the second target are being fetched
C14_Witness ==
    /\ co.pc = "awaitFetch"
    /\ co.phase = "comments"
    /\ co.subIdx = 2
    /\ co.inFlight = 1
    /\ co.netCalls >= 4

\* C15: every network call of a run carries a timeout, so that every call of
\* collect eventually terminates (returns or fails) even if the upstream never
\* answers a request.
C15_CollectTerminates ==
    (co.pc \notin {"idle", "done", "failed"}) ~> (co.pc \in {"done", "failed"})

\* C16: cancellation is cooperative: the cancellation flag is checked before
\* each listing fetch and each comment fetch, so once cancellation is requested
\* no new request is started, while the request in flight completes.
C16_NoRequestAfterCancel ==
    [][co.cancel => co'.netCalls = co.netCalls]_vars

\* C17: over the progress callbacks of one run, for one or several targets and
\* with or without comments, the value of current never decreases from one
\* emission to the next.
C17_CurrentNeverDecreases ==
    \A i \in 1..Len(co.progress) - 1 : co.progress[i] <= co.progress[i + 1]

\* a run of two targets with comments that began with the low-quota warning,
\* is at the comments of the second target, and whose progress went up twice
C17_Witness ==
    /\ co.subIdx = 2
    /\ co.phase = "comments"
    /\ Len(co.subs) = 2
    /\ Len(co.progress) >= 7
    /\ co.progress[1] = 0 /\ co.progress[2] = 0
    /\ \E i, j \in 1..Len(co.progress) :
          /\ i < j
          /\ 0 < co.progress[i]
          /\ co.progress[i] < co.progress[j]

\* C18: updateFromHeaders takes remaining, reset and used from the response
\* headers when they are present, and for each of them that is absent it leaves
\* the tracked value (remaining, resetAt, used) unchanged.
C18_HeadersTakenOrValueKept ==
    call.fn = "updateFromHeaders" =>
        LET h == call.headers
            b == call.before
            a == call.after
        IN /\ a.remaining = IF h.remaining # <<>> THEN h.remaining[1] ELSE b.remaining
           /\ a.resetAt = IF h.reset # <<>> THEN call.at + h.reset[1] ELSE b.resetAt
           /\ a.used = IF h.used # <<>> THEN h.used[1] ELSE b.used

\* C19: anonymization is a pure function of the username: the same username
\* yields the same pseudonym for posts and for comments, within one export and
\* across exports, whatever the time and the order of the records, and the
\* author [deleted] is exported as [deleted].
exportedRecords == {call.post, call.comment, call.seen}

containsIgnoringCase(str, kw) ==
    \E off \in 0..Len(str) :
        /\ off + Len(kw) <= Len(str)
        /\ \A j \in 1..Len(kw) : lowerChar(str[off + j]) = lowerChar(kw[j])

wanted(p, options) ==
    /\ p.score >= options.minScore
    /\ \/ containsIgnoringCase(p.title, options.keyword)
       \/ containsIgnoringCase(p.selftext, options.keyword)

scoresOf(posts) == [i \in 1..Len(posts) |-> posts[i].score]

C20_ExportIsFilteredCollection ==
    call.fn = "exportCollection" =>
        LET posts == call.collection
            recs == call.data.records
            ids == [i \in 1..Len(recs) |-> recs[i].id]
        IN /\ \A i \in 1..Len(posts) :
                 wanted(posts[i], call.options)
                 <=> (\E j \in 1..Len(recs) : recs[j].id = posts[i].id)
           /\ \A i, j \in 1..Len(recs) : i < j => ids[i] < ids[j]
           /\ \A j \in 1..Len(recs) :
                 LET p == posts[recs[j].id]
                 IN /\ recs[j].score = p.score
                    /\ recs[j].title = p.title
                    /\ recs[j].selftext = p.selftext
                    /\ recs[j].author = IF call.options.anonymize
                                        THEN hashUsername(p.author) ELSE p.author
           /\ (call.options.anonymize /\ call.options.minScore = 5
               /\ call.options.keyword = <<>> /\ scoresOf(posts) = <<1, 10, 20>>)
              => (/\ Len(recs) = 2
                  /\ scoresOf(recs) = <<10, 20>>
                  /\ \A j \in 1..2 : recs[j].author = <<117, 115, 101, 114, 95, 50, 112>>)

\* the scenario: anonymize, minScore 5, posts scored 1, 10, 20
C20_Witness ==
    /\ call.fn = "exportCollection"
    /\ call.options.anonymize
    /\ call.options.minScore = 5
    /\ call.options.keyword = <<>>
    /\ scoresOf(call.collection) = <<1, 10, 20>>
    /\ Len(call.data.records) = 2
    /\ db.exports = 1

\* C21: every export archive, for every format and option combination and
\* also for a collection with no posts or no comments, contains exactly one
\* posts data file, named after the requested format, at most one comments
\* file and exactly one provenance.txt.
filesNamed(zip, names) == {i \in 1..Len(zip) : zip[i].name \in names}

C21_ArchiveContents ==
    (call.fn = "archive" /\ call.n > 0) =>
        /\ Cardinality(filesNamed(call.zip,
                                  {"posts.csv", "posts.json", "posts.jsonl"})) = 1
        /\ Cardinality(filesNamed(call.zip, {"posts." \o call.format})) = 1
        /\ Cardinality(filesNamed(call.zip,
               {"comments.csv", "comments.json", "comments.jsonl"})) <= 1
        /\ Cardinality(filesNamed(call.zip, {"provenance.txt"})) = 1
        /\ Len(call.zip) \in {2, 3}

\* a second JSONL export, with comments, of a collection that has them
C21_Witness ==
    /\ call.fn = "archive"
    /\ call.n = 2
    /\ call.format = "jsonl"
    /\ call.options.includeComments
    /\ Len(call.zip) = 3
    /\ filesNamed(call.zip, {"comments.jsonl"}) # {}

\* C22: generating provenance twice from the identical (collection, export
\* options) pair yields documents that are identical except for the single
\* export-timestamp line: no other line depends on the time of the export or
\* on state outside the two inputs.
provenanceOf(zip) ==
    LET i == CHOOSE k \in 1..Len(zip) : zip[k].name = "provenance.txt"
    IN zip[i].content

C22_ProvenanceDeterministic ==
    (call.fn = "archive" /\ call.n >= 2) =>
        LET a == provenanceOf(call.before)
            b == provenanceOf(call.zip)
            differ == {i \in 1..Len(a) : a[i] # b[i]}
        IN /\ Len(a) = Len(b)
           /\ Cardinality(differ) <= 1
           /\ \A i \in differ :
                 /\ a[i].text = b[i].text
                 /\ a[i].text \in {"Export date:", "Export timestamp (UTC):"}
                 /\ a[i].data = <<call.beforeAt>>
                 /\ b[i].data = <<call.at>>

\* the same collection exported with the same options at two different
\* times, an export recorded in the store in between
C22_Witness ==
    /\ call.fn = "archive"
    /\ call.n = 2
    /\ call.impl = "Thresh.Export"
    /\ call.beforeAt < call.at
    /\ db.exports = 2
    /\ call.collection.query # <<>>
    /\ provenanceOf(call.before) # provenanceOf(call.zip)

\* C23: for each export format and any posts (an empty list and text fields
\* with commas, double quotes, CR or LF included), parsing the exported data
\* file back yields exactly the (id, score, numComments) tuples of the
\* exported posts.
sourceTuples(posts) ==
    {<<posts[i].id, <<ToString(posts[i].score)>>,
       <<ToString(posts[i].numComments)>>>> : i \in 1..Len(posts)}

C23_DataFileRoundTrip ==
    (call.fn = "file" /\ call.pc = "read") => call.tuples = sourceTuples(call.posts)

\* C24: for every raw comment tree, whatever its nesting, flattening yields
\* comments whose depth is between 0 and the configured maximum depth: the
\* walk stops descending past maxDepth, each comment's depth is its nesting
\* level in the tree, and its parentId is preserved.
nestingLevel(c) == Len(c.id) - 1

C24_DepthBounded ==
    (call.fn = "comments" /\ call.pc = "flat") =>
        \A k \in 1..Len(call.out) :
            LET c == call.out[k]
            IN /\ 0 <= c.depth
               /\ c.depth <= maxDepth(call.impl)
               /\ c.depth = nestingLevel(c)
               /\ c.parentId = SubSeq(c.id, 1, Len(c.id) - 1)

\* C25: after any sequence of saveCollection and deleteCollection calls, on
\* the IndexedDB and on the localStorage path, getCollections returns exactly
\* the saved and not yet deleted collections, newest first; getCollection(id)
\* returns the collection saved under that id, and null for an id that was
\* never saved or has been deleted.
newestFirst(serials) ==
    [k \in 1..Cardinality(serials) |->
        CHOOSE s \in serials : Cardinality({t \in serials : t >= s}) = k]

C25_StoreContract ==
    /\ (call.fn = "store" /\ call.op = "getCollections") =>
          [k \in 1..Len(call.all) |-> call.all[k].serial] = newestFirst(call.live)
    /\ (call.fn = "store" /\ call.op = "getCollection") =>
          /\ \A s \in call.live :
                (call.issued[s] = call.id /\ call.id \notin call.deleted)
                => (call.one.kind = "object" /\ call.one.value.serial = s)
          /\ ((\A s \in 1..Len(call.issued) : call.issued[s] # call.id)
              \/ call.id \in call.deleted)
             => call.one.kind = "null"

\* C30: an id returned by saveCollection identifies at most one collection
\* over the whole history of the store: the ids of the stored collections are
\* pairwise distinct, and an id freed by deleteCollection is never given to a
\* later, different collection.
C30_IdsNeverReused ==
    call.fn = "store" =>
        /\ \A i, j \in 1..Len(db.rows) : i # j => db.rows[i].id # db.rows[j].id
        /\ \A s, t \in 1..Len(call.issued) :
              s # t => call.issued[s] # call.issued[t]

\* C26: after a collection attempt that ends with a rate-limit error the
\* button does not stay disabled forever (no state is reached in which it is
\* disabled and neither a countdown nor a timer nor a running collection is
\* left to enable it), and the countdown never enables the button while the
\* cooldown is still running.
stuckDisabled ==
    /\ call.disabled
    /\ call.ended = "rateLimited"
    /\ co.pc = "idle"
    /\ rl.countdown = 0
    /\ call.enableAt = 0

enabledByCountdown ==
    /\ rl.countdown > 0
    /\ rl'.countdown = 0
    /\ call.disabled
    /\ ~call'.disabled

C26_ButtonFollowsCooldown ==
    /\ [](call.fn = "startCollection" => ~stuckDisabled)
    /\ [][(call.fn = "startCollection" /\ enabledByCountdown)
          => nowMs >= rl.blockUntil]_vars

\* whether the proxy has handled a request
proxyHandled == call.fn \in {"fetching", "answered"}

\* C27: the proxy never fetches an arbitrary URL: a request with no path is
\* answered 400 and a request whose path, after one leading slash is stripped,
\* does not start with an allowed prefix is answered 403, both without an
\* upstream fetch; every upstream request goes to the host of REDDIT_BASE with
\* a path that starts with an allowed prefix.
C27_ProxyFetchesOnlyAllowed ==
    proxyHandled =>
        /\ call.req.path = <<>> => call.status = 400 /\ ~call.fetched
        /\ (call.req.path # <<>> /\ ~isAllowedPath(stripLeadingSlash(call.req.path)))
              => call.status = 403 /\ ~call.fetched
        /\ call.fetched =>
              /\ call.upstream.host = <<"www.reddit.com">>
              /\ isAllowedPath(call.upstream.path)

\* the network requests sent in the 60 seconds that begin at time t
sentInWindow(t) ==
    Cardinality({i \in 1..Len(call.sent) :
                    call.sent[i] >= t /\ call.sent[i] < t + MINUTE_MS})

\* the requests the rateLimiter has on record for the last 60 seconds
recordedLastMinute == Len(recent(call.timestamps))

\* C28: the scraper's requests are rate-limited to 10 per minute: no network
\* request is sent once 10 requests are on record for the last 60 seconds, and
\* in any 60-second window at most MAX_PER_MIN network requests are sent, also
\* when fetchJSON calls overlap, fail, or fall back through several proxies.
C28_TenPerMinute ==
    /\ [](\A i \in 1..Len(call.sent) : sentInWindow(call.sent[i]) <= MAX_PER_MIN)
    /\ [][Len(call.sent') > Len(call.sent) => recordedLastMinute < MAX_PER_MIN]_vars

\* the number of records of the list that carry the author
countOf(authors, a) == Cardinality({i \in 1..Len(authors) : authors[i] = a})

\* C29: within one export, two different usernames, neither of them
\* [deleted], never receive the same pseudonym, so the per-author counts of
\* the anonymized records equal those of the raw records.
C29_AuthorsDistinguishable ==
    call.fn = "anonymized" =>
        \A i \in 1..Len(call.raw) :
            call.raw[i] # Deleted =>
                /\ \A j \in 1..Len(call.raw) :
                       (call.raw[j] # Deleted /\ call.raw[j] # call.raw[i])
                           => call.out[j] # call.out[i]
                /\ countOf(call.out, call.out[i]) = countOf(call.raw, call.raw[i])

====
